---- MODULE Spec2Model ----
(***************************************************************************)
(* A model of the execution coach bot (src/bot.py): the record store, the  *)
(* UserContext aggregator and its per-object cache, the GeminiCoach        *)
(* response generator with its keyword fallback, and the command handlers  *)
(* of ExecutionCoachBot.                                                   *)
(*                                                                         *)
(* Text is a sequence of one-character strings, so that lower(), strip(),  *)
(* join() and the `word in text` substring test are computed as Python     *)
(* computes them.  None is the empty sequence and a present value v is     *)
(* <<v>>.  Time is counted in ticks of the UTC clock, TicksPerDay == 2     *)
(* ticks to a calendar day; rows written within one tick keep their        *)
(* insertion order (the real clock has microsecond resolution).            *)
(***************************************************************************)
EXTENDS Integers, Sequences, FiniteSets, TLC

VARIABLES
    users,          \* table users         (rows in insertion order)
    goals,          \* table goals
    activities,     \* table activities
    conversations,  \* table conversations
    now,            \* datetime.utcnow(), in ticks
    tz,             \* offset of the server's local clock, datetime.now() - utcnow()
    coach,          \* the GeminiCoach object: api_key, enabled
    h               \* the handler invocation in flight and its local variables

vars == <<users, goals, activities, conversations, now, tz, coach, h>>

----------------------------------------------------------------------------
(* Bounds of the model *)

MaxNow == 1             \* the clock stops advancing at this tick
MaxRows == 1            \* rows a behaviour of Spec may add to the store after the users
MaxStreakDay == 4       \* SpecStreak: calendar days 0..MaxStreakDay of history
MaxNewActs == 2         \* SpecContext: activity rows written on top of the seed
MaxWords == 2           \* SpecClassify: words in an inbound message
MaxSweepUsers == 3      \* SpecSweep: rows of the users table
MaxInFlight == 2        \* SpecUsers: handler invocations in flight at once

(* Program constants *)

TicksPerDay == 2
ActiveDays == 7         \* timedelta(days=7) of the two scheduled sweeps
RecentActivitiesLimit == 20
RecentConversationsLimit == 10

----------------------------------------------------------------------------
(* Text *)

UpperChars == <<"A","B","C","D","E","F","G","H","I","J","K","L","M","N","O","P","Q","R","S","T","U","V","W","X","Y","Z">>
LowerChars == <<"a","b","c","d","e","f","g","h","i","j","k","l","m","n","o","p","q","r","s","t","u","v","w","x","y","z">>

LowerChar(c) ==
    IF \E i \in 1..Len(UpperChars) : UpperChars[i] = c
    THEN LowerChars[CHOOSE i \in 1..Len(UpperChars) : UpperChars[i] = c]
    ELSE c

\* str.lower()
lower(s) == [i \in 1..Len(s) |-> LowerChar(s[i])]

UpperChar(c) ==
    IF \E i \in 1..Len(LowerChars) : LowerChars[i] = c
    THEN UpperChars[CHOOSE i \in 1..Len(LowerChars) : LowerChars[i] = c]
    ELSE c

\* str.upper()
upper(s) == [i \in 1..Len(s) |-> UpperChar(s[i])]

\* `w in s` on two strings
Contains(s, w) ==
    \E i \in 1..(Len(s) - Len(w) + 1) : SubSeq(s, i, i + Len(w) - 1) = w

\* any(word in s for word in words)
any_word_in(words, s) == \E w \in words : Contains(s, w)

IsSpace(c) == c \in {" ", "\t", "\n"}

\* str.strip()
strip(s) ==
    LET keep == {i \in 1..Len(s) : ~IsSpace(s[i])}
    IN  IF keep = {} THEN <<>>
        ELSE SubSeq(s, CHOOSE i \in keep : \A j \in keep : i <= j,
                       CHOOSE i \in keep : \A j \in keep : i >= j)

\* sep.join(parts)
RECURSIVE join(_, _)
join(sep, parts) ==
    IF parts = <<>> THEN <<>>
    ELSE IF Len(parts) = 1 THEN parts[1]
    ELSE parts[1] \o sep \o join(sep, Tail(parts))

\* the comma-separated fields of a stored tag string, as a set
RECURSIVE Fields(_)
Fields(s) ==
    IF \E i \in 1..Len(s) : s[i] = ","
    THEN LET k == CHOOSE i \in 1..Len(s) : s[i] = "," /\ \A j \in 1..(i - 1) : s[j] # ","
         IN  {SubSeq(s, 1, k - 1)} \cup Fields(SubSeq(s, k + 1, Len(s)))
    ELSE {s}

----------------------------------------------------------------------------
(* Keyword lists and fixed texts *)

fallback_procrastination_words ==
    { <<"p","r","o","c","r","a","s","t","i","n","a","t","i","n","g">>,
      <<"a","v","o","i","d","i","n","g">>,
      <<"s","t","u","c","k">>,
      <<"o","v","e","r","w","h","e","l","m","e","d">>,
      <<"c","a","n","'","t"," ","s","t","a","r","t">> }
fallback_impatience_words ==
    { <<"s","l","o","w">>,
      <<"n","o","t"," ","w","o","r","k","i","n","g">>,
      <<"n","o"," ","r","e","s","u","l","t","s">>,
      <<"g","i","v","i","n","g"," ","u","p">>,
      <<"f","r","u","s","t","r","a","t","e","d">> }
fallback_celebration_words ==
    { <<"c","o","m","p","l","e","t","e","d">>,
      <<"f","i","n","i","s","h","e","d">>,
      <<"d","o","n","e">>,
      <<"a","c","h","i","e","v","e","d">>,
      <<"l","a","u","n","c","h","e","d">>,
      <<"w","i","n">> }
analyze_procrastination_words ==
    { <<"p","r","o","c","r","a","s","t","i","n","a","t","i","n","g">>,
      <<"a","v","o","i","d","i","n","g">>,
      <<"s","t","u","c","k">>,
      <<"o","v","e","r","w","h","e","l","m","e","d">> }
analyze_impatience_words ==
    { <<"s","l","o","w">>,
      <<"f","r","u","s","t","r","a","t","e","d">>,
      <<"n","o"," ","r","e","s","u","l","t","s">>,
      <<"i","m","p","a","t","i","e","n","t">> }
analyze_win_words ==
    { <<"c","o","m","p","l","e","t","e","d">>,
      <<"f","i","n","i","s","h","e","d">>,
      <<"d","o","n","e">>,
      <<"w","i","n">>,
      <<"s","u","c","c","e","s","s">> }
analyze_customer_words ==
    { <<"c","u","s","t","o","m","e","r">>,
      <<"c","l","i","e","n","t">>,
      <<"u","s","e","r">>,
      <<"s","a","l","e">> }
analyze_financial_words ==
    { <<"m","o","n","e","y">>,
      <<"r","e","v","e","n","u","e">>,
      <<"f","u","n","d","i","n","g">>,
      <<"i","n","v","e","s","t","m","e","n","t">> }

tag_procrastination == <<"p","r","o","c","r","a","s","t","i","n","a","t","i","o","n">>
tag_impatience == <<"i","m","p","a","t","i","e","n","c","e">>
tag_win == <<"w","i","n">>
tag_customer_related == <<"c","u","s","t","o","m","e","r","_","r","e","l","a","t","e","d">>
tag_financial == <<"f","i","n","a","n","c","i","a","l">>
tag_general == <<"g","e","n","e","r","a","l">>

win_tags == <<"w","i","n",",","c","e","l","e","b","r","a","t","i","o","n">>
stuck_tags == <<"p","r","o","c","r","a","s","t","i","n","a","t","i","o","n",",","s","t","u","c","k">>
default_win_description == <<"A","c","h","i","e","v","e","d"," ","a"," ","w","i","n","!">>
stuck_description == <<"U","s","e","r"," ","r","e","p","o","r","t","e","d"," ","f","e","e","l","i","n","g"," ","s","t","u","c","k">>


\* the fixed texts of generate_business_ideas and conduct_market_research,
\* and what their commands log
ideas_not_available ==
    <<"G","e","m","i","n","i"," ","A","I"," ","n","o","t"," ","a","v","a","i",
      "l","a","b","l","e","."," ","P","l","e","a","s","e"," ","a","d","d"," ",
      "y","o","u","r"," ","A","P","I"," ","k","e","y"," ","f","o","r"," ","b",
      "u","s","i","n","e","s","s"," ","i","d","e","a"," ","g","e","n","e","r",
      "a","t","i","o","n",".">>
ideas_unable ==
    <<"U","n","a","b","l","e"," ","t","o"," ","g","e","n","e","r","a","t","e",
      " ","i","d","e","a","s"," ","a","t"," ","t","h","e"," ","m","o","m","e",
      "n","t",".">>
ideas_unable_later ==
    <<"U","n","a","b","l","e"," ","t","o"," ","g","e","n","e","r","a","t","e",
      " ","i","d","e","a","s"," ","a","t"," ","t","h","e"," ","m","o","m","e",
      "n","t","."," ","P","l","e","a","s","e"," ","t","r","y"," ","a","g","a",
      "i","n"," ","l","a","t","e","r",".">>
research_not_available ==
    <<"G","e","m","i","n","i"," ","A","I"," ","n","o","t"," ","a","v","a","i",
      "l","a","b","l","e","."," ","P","l","e","a","s","e"," ","a","d","d"," ",
      "y","o","u","r"," ","A","P","I"," ","k","e","y"," ","f","o","r"," ","m",
      "a","r","k","e","t"," ","r","e","s","e","a","r","c","h",".">>
research_unable ==
    <<"U","n","a","b","l","e"," ","t","o"," ","c","o","m","p","l","e","t","e",
      " ","r","e","s","e","a","r","c","h"," ","a","t"," ","t","h","e"," ","m",
      "o","m","e","n","t",".">>
research_unable_later ==
    <<"U","n","a","b","l","e"," ","t","o"," ","c","o","m","p","l","e","t","e",
      " ","r","e","s","e","a","r","c","h"," ","a","t"," ","t","h","e"," ","m",
      "o","m","e","n","t","."," ","P","l","e","a","s","e"," ","t","r","y"," ",
      "a","g","a","i","n"," ","l","a","t","e","r",".">>
ideas_description ==
    <<"G","e","n","e","r","a","t","e","d"," ","b","u","s","i","n","e","s","s",
      " ","i","d","e","a","s">>
ideas_tags ==
    <<"b","u","s","i","n","e","s","s","_","i","d","e","a","s",",","b","r","a",
      "i","n","s","t","o","r","m","i","n","g">>
research_description_prefix ==
    <<"C","o","n","d","u","c","t","e","d"," ","m","a","r","k","e","t"," ","r",
      "e","s","e","a","r","c","h"," ","o","n",":"," ">>
research_tags ==
    <<"m","a","r","k","e","t","_","r","e","s","e","a","r","c","h",",","a","n",
      "a","l","y","s","i","s">>

phase_planning == <<"p","l","a","n","n","i","n","g">>
phase_validation == <<"v","a","l","i","d","a","t","i","o","n">>
phase_mvp == <<"m","v","p">>
phase_traction == <<"t","r","a","c","t","i","o","n">>

\* set_phase: valid_phases
valid_phases == <<phase_planning, phase_validation, phase_mvp, phase_traction>>

----------------------------------------------------------------------------
(* The record store *)

\* The external identity (telegram id) whose updates Spec follows.
Ids == {1}

\* update.effective_user: the identity and the name the transport delivers
telegram_user(id) == [id |-> id, first_name |-> IF id = 1 THEN "Ann" ELSE "Bob"]

\* The store as one value: the four tables and the clocks a session reads.
Store == [users |-> users, goals |-> goals, activities |-> activities,
          conversations |-> conversations, now |-> now, tz |-> tz]

\* A faulty variant: the phase column has no default
User_without_phase_default(db, tu) ==
    [telegram_id |-> tu.id, first_name |-> tu.first_name,
     current_business_idea |-> <<>>, execution_phase |-> <<>>,
     created_at |-> db.now, total_activities |-> 0, last_active |-> db.now]

\* A new users row; the column defaults of the User model.
User(db, tu) ==
    [telegram_id |-> tu.id, first_name |-> tu.first_name,
     current_business_idea |-> <<>>, execution_phase |-> phase_planning,
     created_at |-> db.now, total_activities |-> 0, last_active |-> db.now]

\* A new activities row; timestamp defaults to utcnow.
Activity(db, user_id, description, activity_type, mood_score, context_tags) ==
    [user_id |-> user_id, description |-> description,
     activity_type |-> activity_type, timestamp |-> db.now,
     mood_score |-> mood_score, context_tags |-> context_tags]

\* A new conversations row.
Conversation(db, user_id, message_text, bot_response, context_tags, response_type) ==
    [user_id |-> user_id, message_text |-> message_text,
     bot_response |-> bot_response, context_tags |-> context_tags,
     timestamp |-> db.now, response_type |-> response_type]

\* A new goals row; status, created_at and priority take the column defaults.
Goal(db, user_id, title, goal_type) ==
    [user_id |-> user_id, title |-> title, status |-> "active",
     created_at |-> db.now, goal_type |-> goal_type, priority |-> 1]

\* Query.first(): None or the first row
first(rows) == IF rows = <<>> THEN <<>> ELSE <<rows[1]>>

\* Query.limit(n)
limit(rows, n) == IF Len(rows) <= n THEN rows ELSE SubSeq(rows, 1, n)

\* order_by(timestamp.desc()): rows are inserted with non-decreasing
\* timestamps, so the newest row comes first in the reverse of the table.
order_by_timestamp_desc(rows) == [i \in 1..Len(rows) |-> rows[Len(rows) + 1 - i]]

\* session.query(User).filter_by(telegram_id=...)
users_by_telegram_id(db, id) == SelectSeq(db.users, LAMBDA r : r.telegram_id = id)

\* the position in the table of the row Query.first() returns
user_position(db, id) ==
    CHOOSE i \in 1..Len(db.users) :
        /\ db.users[i].telegram_id = id
        /\ \A j \in 1..(i - 1) : db.users[j].telegram_id # id

activities_by_user(db, id) == SelectSeq(db.activities, LAMBDA r : r.user_id = id)

conversations_by_user(db, id) == SelectSeq(db.conversations, LAMBDA r : r.user_id = id)

\* filter_by(user_id=..., status='active').order_by(priority.desc()); every
\* goal is written with the default priority 1, so the order is the table's.
active_goals_by_user(db, id) ==
    SelectSeq(db.goals, LAMBDA r : r.user_id = id /\ r.status = "active")

\* datetime.date() of a UTC timestamp, and of the server's local time
Date(t) == t \div TicksPerDay

\* A faulty variant: a row is added without looking for one
get_or_create_user_always_adds(db, tu) ==
    [db EXCEPT !.users = Append(@, User(db, tu))]

\* DatabaseManager.get_or_create_user: the store after the call
get_or_create_user(db, tu) ==
    IF users_by_telegram_id(db, tu.id) = <<>>
    THEN [db EXCEPT !.users = Append(@, User(db, tu))]
    ELSE [db EXCEPT !.users[user_position(db, tu.id)].last_active = db.now]

----------------------------------------------------------------------------
(* UserContext *)

\* The dict get_user_data returns; {} is the dict with empty = TRUE.
EmptyDict ==
    [empty |-> TRUE, user |-> <<>>, recent_activities |-> <<>>,
     active_goals |-> <<>>, recent_conversations |-> <<>>,
     last_checkin |-> <<>>, current_streak |-> 0, execution_phase |-> <<>>,
     total_activities |-> 0, days_since_start |-> 0]

\* dict.get(key, default), for each key the program reads with a default
get_user(d) == IF d.empty THEN <<>> ELSE d.user
get_current_streak(d) == IF d.empty THEN 0 ELSE d.current_streak
get_execution_phase(d, default) == IF d.empty THEN default ELSE d.execution_phase
get_total_activities(d) == IF d.empty THEN 0 ELSE d.total_activities
get_days_since_start(d) == IF d.empty THEN 0 ELSE d.days_since_start
get_recent_activities(d) == IF d.empty THEN <<>> ELSE d.recent_activities

\* UserContext.__init__: the cache _user_data starts as None
UserContext(user_id) == [user_id |-> user_id, user_data |-> <<>>]

\* UserContext.get_last_checkin
get_last_checkin(db, self) ==
    LET last_activity == first(order_by_timestamp_desc(activities_by_user(db, self.user_id)))
    IN  IF last_activity = <<>> THEN <<>> ELSE <<last_activity[1].timestamp>>

\* the loop `while check_date in activity_dates` of calculate_streak
RECURSIVE count_consecutive_days(_, _)
count_consecutive_days(activity_dates, check_date) ==
    IF check_date \in activity_dates
    THEN 1 + count_consecutive_days(activity_dates, check_date - 1)
    ELSE 0

\* A faulty variant: the count starts from the date of the most recent activity
streak_start_date_of_last_activity(db, rows) == Date(rows[1].timestamp)

\* the day the count starts from: datetime.now().date(), the server's local date
streak_start_date(db, rows) == Date(db.now + db.tz)

\* UserContext.calculate_streak
calculate_streak(db, self) ==
    LET rows == order_by_timestamp_desc(activities_by_user(db, self.user_id))
        activity_dates == {Date(rows[i].timestamp) : i \in 1..Len(rows)}
    IN  IF rows = <<>> THEN 0
        ELSE count_consecutive_days(activity_dates, streak_start_date(db, rows))

\* A faulty variant: the query has no filter on the user
recent_activities_of_any_user(db, user_id) ==
    limit(order_by_timestamp_desc(db.activities), RecentActivitiesLimit)

\* the recent_activities query of get_user_data
recent_activities_of(db, user_id) ==
    limit(order_by_timestamp_desc(activities_by_user(db, user_id)), RecentActivitiesLimit)

\* A faulty variant: the empty dict is kept in the cache like any other result
not_found_result_cached(self) ==
    [self |-> [self EXCEPT !.user_data = <<EmptyDict>>], ret |-> EmptyDict]

\* get_user_data when the query finds no users row: `return {}`, before the
\* cache is assigned
not_found_result(self) == [self |-> self, ret |-> EmptyDict]

\* A faulty variant: a day that has begun counts as a day
days_since_start_rounded_up(db, user) ==
    (db.now - user.created_at + TicksPerDay - 1) \div TicksPerDay

\* (datetime.utcnow() - user.created_at).days: timedelta.days is the floor
days_since_start(db, user) == (db.now - user.created_at) \div TicksPerDay

\* UserContext.get_user_data: the object after the call and the dict returned
get_user_data(db, self) ==
    IF self.user_data # <<>>
    THEN [self |-> self, ret |-> self.user_data[1]]
    ELSE LET user == first(users_by_telegram_id(db, self.user_id))
         IN  IF user = <<>>
             THEN not_found_result(self)
             ELSE LET data ==
                        [empty |-> FALSE,
                         user |-> user,
                         recent_activities |-> recent_activities_of(db, self.user_id),
                         active_goals |-> active_goals_by_user(db, self.user_id),
                         recent_conversations |->
                             limit(order_by_timestamp_desc(conversations_by_user(db, self.user_id)),
                                   RecentConversationsLimit),
                         last_checkin |-> get_last_checkin(db, self),
                         current_streak |-> calculate_streak(db, self),
                         execution_phase |-> user[1].execution_phase,
                         total_activities |-> user[1].total_activities,
                         days_since_start |-> days_since_start(db, user[1])]
                  IN  [self |-> [self EXCEPT !.user_data = <<data>>], ret |-> data]

\* A faulty variant: log_activity leaves the cached dict in place
cache_kept_after_log(self) == self.user_data

\* the cache after log_activity has committed: self._user_data = None
cache_after_log(self) == <<>>

\* UserContext.log_activity: the store and the object after the call
log_activity(db, self, description, activity_type, mood_score, context_tags) ==
    LET activity == Activity(db, self.user_id, description, activity_type,
                             mood_score, context_tags)
        user == users_by_telegram_id(db, self.user_id)
        db1 == [db EXCEPT !.activities = Append(@, activity)]
        db2 == IF user # <<>>
               THEN [db1 EXCEPT
                        !.users[user_position(db, self.user_id)].total_activities = @ + 1,
                        !.users[user_position(db, self.user_id)].last_active = db.now]
               ELSE db1
    IN  [db |-> db2, self |-> [self EXCEPT !.user_data = cache_after_log(self)]]

----------------------------------------------------------------------------
(* GeminiCoach *)

\* GeminiCoach.__init__: enabled only with a key and a client that configured
GeminiCoach(api_key, configure_ok) ==
    [api_key |-> api_key, enabled |-> api_key # <<>> /\ configure_ok]

\* A reply text is either the text the generation call returned or one of
\* the four fallback templates with the values interpolated into it.
generated_text(text) ==
    [kind |-> "generated", text |-> text, bucket |-> "", first_name |-> "",
     days |-> 0, phase |-> <<>>]

\* a text the program holds or builds itself, outside the four templates
fixed_text(text) ==
    [kind |-> "fixed", text |-> text, bucket |-> "", first_name |-> "",
     days |-> 0, phase |-> <<>>]

template_text(bucket, first_name, days, phase) ==
    [kind |-> "template", text |-> <<>>, bucket |-> bucket,
     first_name |-> first_name, days |-> days, phase |-> phase]

\* A faulty variant: the impatience keywords are looked at before the procrastination ones
fallback_bucket_impatience_first(message_lower) ==
    IF any_word_in(fallback_impatience_words, message_lower) THEN "impatience"
    ELSE IF any_word_in(fallback_procrastination_words, message_lower) THEN "procrastination"
    ELSE IF any_word_in(fallback_celebration_words, message_lower) THEN "celebration"
    ELSE "general"

\* the bucket of fallback_response: the first keyword list that matches
fallback_bucket(message_lower) ==
    IF any_word_in(fallback_procrastination_words, message_lower) THEN "procrastination"
    ELSE IF any_word_in(fallback_impatience_words, message_lower) THEN "impatience"
    ELSE IF any_word_in(fallback_celebration_words, message_lower) THEN "celebration"
    ELSE "general"

\* GeminiCoach.fallback_response
fallback_response(message, context_data) ==
    LET user == get_user(context_data)
        streak == get_current_streak(context_data)
        phase == get_execution_phase(context_data, phase_planning)
        name == IF user # <<>> THEN user[1].first_name ELSE "friend"
        bucket == fallback_bucket(lower(message))
    IN  CASE bucket = "procrastination" -> template_text(bucket, name, streak, phase)
          [] bucket = "impatience" -> template_text(bucket, "", streak, phase)
          [] bucket = "celebration" -> template_text(bucket, "", streak + 1, phase)
          [] OTHER -> template_text(bucket, name, streak, phase)

\* What model.generate_content can do: raise, return no response object, or
\* return a response with a text.
GenerationOutcomes ==
    { [kind |-> "raise", text |-> <<>>],
      [kind |-> "none", text |-> <<>>],
      [kind |-> "text", text |-> <<>>],
      [kind |-> "text", text |-> <<" ">>],
      [kind |-> "text", text |-> <<" ","O","K","\n">>] }

\* A faulty variant: the generation call is issued whether or not the coach is enabled
generate_response_enter_unchecked(gemini_coach, message, context_data) ==
    [called |-> TRUE, response |-> <<>>]

\* generate_response up to the generation call: the fallback at once when
\* the coach is not enabled, else one call is issued and awaited.
generate_response_enter(gemini_coach, message, context_data) ==
    IF ~gemini_coach.enabled
    THEN [called |-> FALSE, response |-> <<fallback_response(message, context_data)>>]
    ELSE [called |-> TRUE, response |-> <<>>]

\* A faulty variant: no except clause: an error of the generation call reaches the caller
generate_response_return_uncaught(outcome, message, context_data) ==
    IF outcome.kind = "raise"
    THEN [raised |-> TRUE, response |-> <<>>]
    ELSE IF outcome.kind = "text" /\ outcome.text # <<>>
    THEN [raised |-> FALSE, response |-> <<generated_text(strip(outcome.text))>>]
    ELSE [raised |-> FALSE,
          response |-> <<fallback_response(message, context_data)>>]

\* generate_response from the return of the generation call on
generate_response_return(outcome, message, context_data) ==
    IF outcome.kind = "text" /\ outcome.text # <<>>
    THEN [raised |-> FALSE, response |-> <<generated_text(strip(outcome.text))>>]
    ELSE [raised |-> FALSE,
          response |-> <<fallback_response(message, context_data)>>]

\* generate_business_ideas up to the generation call
generate_business_ideas_enter(gemini_coach, context_data, user_request) ==
    IF ~gemini_coach.enabled
    THEN [called |-> FALSE, response |-> <<fixed_text(ideas_not_available)>>]
    ELSE [called |-> TRUE, response |-> <<>>]

\* A faulty variant: a failed generation call is answered by the keyword fallback
generate_business_ideas_return_fallback(outcome, context_data, user_request) ==
    IF outcome.kind = "text" /\ outcome.text # <<>>
    THEN [raised |-> FALSE, response |-> <<generated_text(strip(outcome.text))>>]
    ELSE [raised |-> FALSE,
          response |-> <<fallback_response(user_request, context_data)>>]

\* generate_business_ideas from the return of the generation call on
generate_business_ideas_return(outcome, context_data, user_request) ==
    IF outcome.kind = "raise"
    THEN [raised |-> FALSE, response |-> <<fixed_text(ideas_unable_later)>>]
    ELSE IF outcome.kind = "text" /\ outcome.text # <<>>
    THEN [raised |-> FALSE, response |-> <<generated_text(strip(outcome.text))>>]
    ELSE [raised |-> FALSE, response |-> <<fixed_text(ideas_unable)>>]

\* conduct_market_research up to the generation call
conduct_market_research_enter(gemini_coach, context_data, research_topic) ==
    IF ~gemini_coach.enabled
    THEN [called |-> FALSE, response |-> <<fixed_text(research_not_available)>>]
    ELSE [called |-> TRUE, response |-> <<>>]

\* conduct_market_research from the return of the generation call on
conduct_market_research_return(outcome, context_data, research_topic) ==
    IF outcome.kind = "raise"
    THEN [raised |-> FALSE, response |-> <<fixed_text(research_unable_later)>>]
    ELSE IF outcome.kind = "text" /\ outcome.text # <<>>
    THEN [raised |-> FALSE, response |-> <<generated_text(strip(outcome.text))>>]
    ELSE [raised |-> FALSE, response |-> <<fixed_text(research_unable)>>]

----------------------------------------------------------------------------
(* ExecutionCoachBot: the classifier and the texts the handlers build *)

\* A faulty variant: the five checks chained with elif: the first match is the only tag
analyze_tags_first_match(message_lower) ==
    IF any_word_in(analyze_procrastination_words, message_lower) THEN <<tag_procrastination>>
    ELSE IF any_word_in(analyze_impatience_words, message_lower) THEN <<tag_impatience>>
    ELSE IF any_word_in(analyze_win_words, message_lower) THEN <<tag_win>>
    ELSE IF any_word_in(analyze_customer_words, message_lower) THEN <<tag_customer_related>>
    ELSE IF any_word_in(analyze_financial_words, message_lower) THEN <<tag_financial>>
    ELSE <<>>

\* the list `tags` of analyze_message_context, in the order it is appended
analyze_tags(message_lower) ==
    (IF any_word_in(analyze_procrastination_words, message_lower)
     THEN <<tag_procrastination>> ELSE <<>>)
    \o (IF any_word_in(analyze_impatience_words, message_lower)
        THEN <<tag_impatience>> ELSE <<>>)
    \o (IF any_word_in(analyze_win_words, message_lower)
        THEN <<tag_win>> ELSE <<>>)
    \o (IF any_word_in(analyze_customer_words, message_lower)
        THEN <<tag_customer_related>> ELSE <<>>)
    \o (IF any_word_in(analyze_financial_words, message_lower)
        THEN <<tag_financial>> ELSE <<>>)

\* A faulty variant: the sentinel is appended to whatever was found
analyze_message_context_always_general(message) ==
    join(<<",">>, Append(analyze_tags(lower(message)), tag_general))

\* ExecutionCoachBot.analyze_message_context
analyze_message_context(message) ==
    LET tags == analyze_tags(lower(message))
    IN  IF tags # <<>> THEN join(<<",">>, tags) ELSE tag_general

\* handle_stuck: the message it hands to generate_response
unstuck_message ==
    <<"I","'","m"," ","f","e","e","l","i","n","g"," ","s","t","u","c","k"," ",
      "a","n","d"," ","p","r","o","c","r","a","s","t","i","n","a","t","i","n",
      "g","."," ","P","l","e","a","s","e"," ","h","e","l","p"," ","m","e"," ",
      "g","e","t"," ","u","n","s","t","u","c","k"," ","w","i","t","h"," ","a",
      " ","s","p","e","c","i","f","i","c"," ","5","-","m","i","n","u","t","e",
      " ","a","c","t","i","o","n"," ","I"," ","c","a","n"," ","t","a","k","e",
      " ","r","i","g","h","t"," ","n","o","w",".">>

\* log_win: win_description and the message it hands to generate_response
win_description(args) ==
    IF args # <<>> THEN join(<<" ">>, args) ELSE default_win_description

celebration_prefix ==
    <<"I"," ","j","u","s","t"," ","a","c","h","i","e","v","e","d"," ","a"," ",
      "w","i","n",":"," ">>

celebration_suffix ==
    <<"."," ","P","l","e","a","s","e"," ","c","e","l","e","b","r","a","t","e",
      " ","w","i","t","h"," ","m","e"," ","a","n","d"," ","h","e","l","p"," ",
      "m","e"," ","b","u","i","l","d"," ","o","n"," ","t","h","i","s"," ","m",
      "o","m","e","n","t","u","m","!">>

celebration_message(description) ==
    celebration_prefix \o description \o celebration_suffix

----------------------------------------------------------------------------
(* ExecutionCoachBot: the handlers *)

\* The application handles one update at a time.  A handler runs without
\* interruption between two awaits that suspend it: the generation call
\* (pc = "generating") and the send of the reply (pc = "replying").
\* The fields after gen_calls record what happened, for the properties:
\* the outcome of the generation call, whether the invocation wrote to users
\* or activities before it asked for a response, the dict a new aggregation
\* would have returned at that moment, whether the identity had no row when
\* the invocation began, and for a UserContext called directly its last two
\* operations, the counter before its last log and the row that log wrote;
\* then the four tables and the clock as the invocation found them,
\* whether a UserContext called directly has ever returned the empty dict,
\* and whether a commit of the invocation was rejected by the store.
NoHandler ==
    [cmd |-> "none", pc |-> "idle", user_id |-> 0, args |-> <<>>,
     text |-> <<>>, message |-> <<>>,
     user_context |-> UserContext(0), context_data |-> <<>>, response |-> <<>>,
     response_type |-> "", reply |-> <<>>, gen_calls |-> 0,
     outcome |-> <<>>, wrote |-> FALSE, fresh |-> <<>>, no_prior_rows |-> FALSE,
     op |-> "", prev_op |-> "", total_before |-> 0, logged |-> <<>>,
     before |-> <<>>, at |-> 0, not_found |-> FALSE, store_fault |-> FALSE]

\* the four tables of a store
Tables(db) ==
    [users |-> db.users, goals |-> db.goals, activities |-> db.activities,
     conversations |-> db.conversations]

\* a text sent with reply_text: a fixed head, the response under it, and the
\* numbers a fixed text shows
reply_text(head, body) ==
    [head |-> head, body |-> body, streak |-> 0, total_activities |-> 0,
     days_since_start |-> 0]

Free == h.pc \in {"idle", "raised"}

\* whether no table holds a row of this identity
NoRowsOf(db, id) ==
    /\ users_by_telegram_id(db, id) = <<>>
    /\ activities_by_user(db, id) = <<>>
    /\ conversations_by_user(db, id) = <<>>
    /\ \A i \in 1..Len(db.goals) : db.goals[i].user_id # id

\* the text that marks a row an earlier run left in the store
seed_description == <<"o","l","d","e","r">>

\* the rows a behaviour has added to the rows an earlier run left
NewRows ==
    Cardinality({i \in 1..Len(goals) : goals[i].title # seed_description})
    + Cardinality({i \in 1..Len(activities) :
                      activities[i].description # seed_description})
    + Cardinality({i \in 1..Len(conversations) :
                      conversations[i].message_text # seed_description})

\* the bound on the rows of a behaviour
RoomForRow == NewRows < MaxRows

Commit(db) ==
    /\ users' = db.users
    /\ goals' = db.goals
    /\ activities' = db.activities
    /\ conversations' = db.conversations
    /\ UNCHANGED <<now, tz>>

\* the response_type handle_message stores with the conversation
message_response_type(gemini_coach, response) ==
    IF gemini_coach.enabled THEN "gemini" ELSE "fallback"

\* A handler from the return of generate_response to its reply_text.
after_response(db, hh) ==
    CASE hh.cmd = "message" ->
            LET response_type == message_response_type(coach, hh.response[1])
                context_tags == analyze_message_context(hh.text)
                conversation == Conversation(db, hh.user_id, hh.text, hh.response[1],
                                             context_tags, response_type)
            IN  [db |-> [db EXCEPT !.conversations = Append(@, conversation)],
                 h |-> [hh EXCEPT !.pc = "replying", !.response_type = response_type,
                                  !.reply = <<reply_text("", hh.response)>>]]
      [] hh.cmd = "stuck" ->
            [db |-> db,
             h |-> [hh EXCEPT !.pc = "replying",
                              !.reply = <<reply_text("Stuck Alert Activated!", hh.response)>>]]
      [] hh.cmd = "win" ->
            [db |-> db,
             h |-> [hh EXCEPT !.pc = "replying",
                              !.reply = <<reply_text("Win Logged!", hh.response)>>]]
      [] hh.cmd = "ideas" ->
            LET logged == log_activity(db, hh.user_context, ideas_description,
                                       "planning", <<>>, <<ideas_tags>>)
            IN  [db |-> logged.db,
                 h |-> [hh EXCEPT !.pc = "replying", !.user_context = logged.self,
                                  !.reply = <<reply_text("Creative Business Ideas",
                                                         hh.response)>>]]
      [] hh.cmd = "research" ->
            LET logged == log_activity(db, hh.user_context,
                                       research_description_prefix \o hh.text,
                                       "research", <<>>, <<research_tags>>)
            IN  [db |-> logged.db,
                 h |-> [hh EXCEPT !.pc = "replying", !.user_context = logged.self,
                                  !.reply = <<reply_text("Market Research: ",
                                                         hh.response)>>]]

\* A handler at `await self.gemini_coach.generate_response(message, context_data)`.
respond(db, hh) ==
    LET enter == generate_response_enter(coach, hh.message, hh.context_data[1])
    IN  IF enter.called
        THEN [db |-> db, h |-> [hh EXCEPT !.pc = "generating", !.gen_calls = @ + 1]]
        ELSE after_response(db, [hh EXCEPT !.response = enter.response])

\* /start.  For a user who exists get_or_create_user commits last_active,
\* which expires the row's attributes, and closes the session; reading
\* user.first_name of the detached row then raises, so no text is sent.
start_command(id) ==
    /\ Free
    /\ LET db == get_or_create_user(Store, telegram_user(id))
           existed == users_by_telegram_id(Store, id) # <<>>
           hh == [NoHandler EXCEPT !.cmd = "start", !.user_id = id, !.wrote = TRUE,
                                   !.no_prior_rows = NoRowsOf(Store, id),
                                   !.before = <<Tables(Store)>>, !.at = now]
       IN  /\ Commit(db)
           /\ h' = IF existed
                   THEN [hh EXCEPT !.pc = "raised"]
                   ELSE [hh EXCEPT !.pc = "replying",
                                   !.reply = <<reply_text("Welcome", <<>>)>>]
    /\ UNCHANGED coach

\* a free-text message
handle_message(id, message_text) ==
    /\ Free
    /\ RoomForRow
    /\ LET db == get_or_create_user(Store, telegram_user(id))
           got == get_user_data(db, UserContext(id))
           hh == [NoHandler EXCEPT !.cmd = "message", !.user_id = id,
                                   !.text = message_text, !.message = message_text,
                                   !.user_context = got.self,
                                   !.context_data = <<got.ret>>,
                                   !.wrote = TRUE,
                                   !.fresh = <<get_user_data(db, UserContext(id)).ret>>,
                                   !.no_prior_rows = NoRowsOf(Store, id),
                                   !.before = <<Tables(Store)>>, !.at = now]
           out == respond(db, hh)
       IN  Commit(out.db) /\ h' = out.h
    /\ UNCHANGED coach

\* /stuck
handle_stuck(id) ==
    /\ Free
    /\ RoomForRow
    /\ LET got == get_user_data(Store, UserContext(id))
           logged == log_activity(Store, got.self, stuck_description, "blocker",
                                  <<>>, <<stuck_tags>>)
           hh == [NoHandler EXCEPT !.cmd = "stuck", !.user_id = id,
                                   !.message = unstuck_message,
                                   !.user_context = logged.self,
                                   !.context_data = <<got.ret>>,
                                   !.wrote = TRUE,
                                   !.fresh = <<get_user_data(logged.db, UserContext(id)).ret>>,
                                   !.no_prior_rows = NoRowsOf(Store, id),
                                   !.before = <<Tables(Store)>>, !.at = now]
           out == respond(logged.db, hh)
       IN  Commit(out.db) /\ h' = out.h
    /\ UNCHANGED coach

\* /win [description]
log_win(id, args) ==
    /\ Free
    /\ RoomForRow
    /\ LET description == win_description(args)
           logged == log_activity(Store, UserContext(id), description, "win",
                                  <<4>>, <<win_tags>>)
           got == get_user_data(logged.db, logged.self)
           hh == [NoHandler EXCEPT !.cmd = "win", !.user_id = id,
                                   !.text = description,
                                   !.message = celebration_message(description),
                                   !.user_context = got.self,
                                   !.context_data = <<got.ret>>,
                                   !.wrote = TRUE,
                                   !.fresh = <<get_user_data(logged.db, UserContext(id)).ret>>,
                                   !.no_prior_rows = NoRowsOf(Store, id),
                                   !.before = <<Tables(Store)>>, !.at = now]
           out == respond(logged.db, hh)
       IN  Commit(out.db) /\ h' = out.h
    /\ UNCHANGED coach

\* /progress
show_progress(id) ==
    /\ Free
    /\ LET got == get_user_data(Store, UserContext(id))
           progress_msg ==
               [head |-> "Your Execution Progress", body |-> <<>>,
                streak |-> get_current_streak(got.ret),
                total_activities |-> get_total_activities(got.ret),
                days_since_start |-> get_days_since_start(got.ret)]
       IN  h' = [NoHandler EXCEPT !.cmd = "progress", !.user_id = id,
                                  !.user_context = got.self,
                                  !.context_data = <<got.ret>>,
                                  !.pc = "replying", !.reply = <<progress_msg>>,
                                  !.no_prior_rows = NoRowsOf(Store, id),
                                   !.before = <<Tables(Store)>>, !.at = now]
    /\ UNCHANGED <<users, goals, activities, conversations, now, tz, coach>>

\* a handler as it is invoked with an update of this identity
Invoked(cmd, id, args) ==
    [NoHandler EXCEPT !.cmd = cmd, !.user_id = id, !.args = args,
                      !.no_prior_rows = NoRowsOf(Store, id),
                      !.before = <<Tables(Store)>>, !.at = now]

\* a handler that goes on to send this text
replies(hh, text) == [hh EXCEPT !.pc = "replying", !.reply = <<text>>]

start_first_text == reply_text("Please use /start first to initialize your profile.", <<>>)

\* /idea [description]
set_business_idea(id, args) ==
    /\ Free
    /\ LET hh == Invoked("idea", id, args)
           idea == join(<<" ">>, args)
           user == first(users_by_telegram_id(Store, id))
       IN  IF args # <<>>
           THEN IF user # <<>>
                THEN /\ Commit([Store EXCEPT
                           !.users[user_position(Store, id)].current_business_idea = <<idea>>])
                     /\ h' = replies(hh, reply_text("Business idea set: ", <<fixed_text(idea)>>))
                ELSE Commit(Store) /\ h' = replies(hh, start_first_text)
           ELSE /\ Commit(Store)
                /\ h' = replies(hh, reply_text("Usage: /idea Your business idea description", <<>>))
    /\ UNCHANGED coach

\* A faulty variant: any value that was given is taken for a phase
is_valid_phase_unchecked(phase) == phase # <<>>

\* `phase in valid_phases`
is_valid_phase(phase) == \E i \in 1..Len(valid_phases) : valid_phases[i] = phase

\* /phase [value]
set_phase(id, args) ==
    /\ Free
    /\ LET hh == Invoked("phase", id, args)
           phase == lower(args[1])
           user == first(users_by_telegram_id(Store, id))
       IN  IF args # <<>>
           THEN IF is_valid_phase(phase)
                THEN IF user # <<>>
                     THEN /\ Commit([Store EXCEPT
                                !.users[user_position(Store, id)].execution_phase = phase])
                          /\ h' = replies(hh, reply_text("Execution phase set to: ",
                                                         <<fixed_text(upper(phase))>>))
                     ELSE Commit(Store) /\ h' = replies(hh, start_first_text)
                ELSE /\ Commit(Store)
                     /\ h' = replies(hh, reply_text("Valid phases: ",
                                        <<fixed_text(join(<<",", " ">>, valid_phases))>>))
           ELSE /\ Commit(Store)
                /\ h' = replies(hh, reply_text("Usage: /phase [planning|validation|mvp|traction]", <<>>))
    /\ UNCHANGED coach

\* A faulty variant: the goal is stored whether or not a description was given
set_goal_always_stores(id, args) ==
    /\ Free
    /\ RoomForRow
    /\ LET hh == Invoked("goal", id, args)
           goal_text == join(<<" ">>, args)
           goal == Goal(Store, id, goal_text, "general")
       IN  /\ Commit([Store EXCEPT !.goals = Append(@, goal)])
           /\ h' = replies(hh, reply_text("Goal set: ", <<fixed_text(goal_text)>>))
    /\ UNCHANGED coach

\* /goal [description]
set_goal(id, args) ==
    /\ Free
    /\ args # <<>> => RoomForRow
    /\ LET hh == Invoked("goal", id, args)
           goal_text == join(<<" ">>, args)
           goal == Goal(Store, id, goal_text, "general")
       IN  IF args # <<>>
           THEN /\ Commit([Store EXCEPT !.goals = Append(@, goal)])
                /\ h' = replies(hh, reply_text("Goal set: ", <<fixed_text(goal_text)>>))
           ELSE /\ Commit(Store)
                /\ h' = replies(hh, reply_text("Usage: /goal Your goal description", <<>>))
    /\ UNCHANGED coach

\* a handler at the await of one of the two specialised operations: the
\* fixed text at once, or the generation call issued and awaited
respond_specialised(db, hh, enter) ==
    IF enter.called
    THEN [db |-> db, h |-> [hh EXCEPT !.pc = "generating", !.gen_calls = @ + 1]]
    ELSE after_response(db, [hh EXCEPT !.response = enter.response])

\* /ideas [request].  The notice sent before the operation is awaited
\* changes nothing and is left out.
generate_business_ideas_command(id, args) ==
    /\ Free
    /\ RoomForRow
    /\ LET got == get_user_data(Store, UserContext(id))
           user_request == IF args # <<>> THEN join(<<" ">>, args) ELSE <<>>
           hh == [Invoked("ideas", id, args) EXCEPT
                     !.text = user_request,
                     !.user_context = got.self,
                     !.context_data = <<got.ret>>]
           out == respond_specialised(Store, hh,
                      generate_business_ideas_enter(coach, got.ret, user_request))
       IN  Commit(out.db) /\ h' = out.h
    /\ UNCHANGED coach

\* /research [topic]
market_research_command(id, args) ==
    /\ Free
    /\ args # <<>> => RoomForRow
    /\ IF args = <<>>
       THEN /\ Commit(Store)
            /\ h' = replies(Invoked("research", id, args),
                            reply_text("Usage: /research [topic]", <<>>))
       ELSE LET got == get_user_data(Store, UserContext(id))
                research_topic == join(<<" ">>, args)
                hh == [Invoked("research", id, args) EXCEPT
                          !.text = research_topic,
                          !.user_context = got.self,
                          !.context_data = <<got.ret>>]
                out == respond_specialised(Store, hh,
                           conduct_market_research_enter(coach, got.ret, research_topic))
            IN  Commit(out.db) /\ h' = out.h
    /\ UNCHANGED coach

\* asyncio.to_thread(self.model.generate_content, prompt) comes back
generation_returns(outcome) ==
    /\ h.pc = "generating"
    /\ LET ret ==
               CASE h.cmd = "ideas" ->
                      generate_business_ideas_return(outcome, h.context_data[1], h.text)
                 [] h.cmd = "research" ->
                      conduct_market_research_return(outcome, h.context_data[1], h.text)
                 [] OTHER ->
                      generate_response_return(outcome, h.message, h.context_data[1])
           hh == [h EXCEPT !.outcome = <<outcome>>]
       IN  IF ret.raised
           THEN h' = [hh EXCEPT !.pc = "raised"] /\ Commit(Store)
           ELSE LET out == after_response(Store, [hh EXCEPT !.response = ret.response])
                IN  Commit(out.db) /\ h' = out.h
    /\ UNCHANGED coach

\* update.message.reply_text(...) has sent the text
reply_sent ==
    /\ h.pc = "replying"
    /\ h' = NoHandler
    /\ UNCHANGED <<users, goals, activities, conversations, now, tz, coach>>

\* time passes
Advance ==
    /\ now < MaxNow
    /\ now' = now + 1
    /\ UNCHANGED <<users, goals, activities, conversations, tz, coach, h>>

----------------------------------------------------------------------------
(* The bot from an empty store *)

TzOffsets == {0, 1}

Coaches == {GeminiCoach(k, ok) : k \in {<<>>, <<"key">>}, ok \in BOOLEAN}

Lit_hello == <<"h","e","l","l","o">>
Lit_Stuck == <<"S","t","u","c","k">>
Lit_slow == <<"s","l","o","w">>
Lit_Launched == <<"L","a","u","n","c","h","e","d">>
Lit_page == <<"p","a","g","e">>

\* the free-text messages and the /win arguments users send under Spec
Messages == {Lit_hello, join(<<" ">>, <<Lit_Stuck, Lit_slow>>)}
WinArgs == {<<>>, <<Lit_Launched, Lit_page>>, <<Lit_slow, Lit_page>>}

Lit_MVP == <<"M","V","P">>
Lit_somethingwrong == <<"s","o","m","e","t","h","i","n","g","w","r","o","n","g">>

\* the arguments of /idea and /goal, and of /phase
TextArgs == {<<>>, <<Lit_Launched, Lit_page>>}
PhaseArgs == {<<>>, <<Lit_MVP>>, <<Lit_somethingwrong>>}

Init ==
    /\ users = <<>>
    /\ goals = <<>>
    /\ activities = <<>>
    /\ conversations = <<>>
    /\ now = 0
    /\ tz \in TzOffsets
    /\ coach \in Coaches
    /\ h = NoHandler

Next ==
    \/ \E id \in Ids : start_command(id)
    \/ \E id \in Ids, m \in Messages : handle_message(id, m)
    \/ \E id \in Ids : handle_stuck(id)
    \/ \E id \in Ids, args \in WinArgs : log_win(id, args)
    \/ \E id \in Ids : show_progress(id)
    \/ \E outcome \in GenerationOutcomes : generation_returns(outcome)
    \/ reply_sent
    \/ Advance

Spec == Init /\ [][Next]_vars

----------------------------------------------------------------------------
(* Every command that reads or writes a user's rows, sent by an identity    *)
(* that may or may not have its users row yet.  The row, when there is     *)
(* one, was written at tick 0 and the commands arrive at some later tick.   *)

InitCommands ==
    /\ now \in 0..MaxNow
    /\ tz \in TzOffsets
    /\ users \in {<<>>, <<User([now |-> 0], telegram_user(1))>>}
    /\ goals = <<>>
    /\ activities = <<>>
    /\ conversations = <<>>
    /\ coach \in Coaches
    /\ h = NoHandler

NextCommands ==
    \/ start_command(1)
    \/ \E m \in Messages : handle_message(1, m)
    \/ handle_stuck(1)
    \/ \E args \in WinArgs : log_win(1, args)
    \/ show_progress(1)
    \/ \E args \in TextArgs : set_business_idea(1, args)
    \/ \E args \in PhaseArgs : set_phase(1, args)
    \/ \E args \in TextArgs : set_goal(1, args)
    \/ \E args \in TextArgs : generate_business_ideas_command(1, args)
    \/ \E args \in TextArgs : market_research_command(1, args)
    \/ \E outcome \in GenerationOutcomes : generation_returns(outcome)
    \/ reply_sent

SpecCommands == InitCommands /\ [][NextCommands]_vars

----------------------------------------------------------------------------
(* The two scheduled sweeps, daily_checkin and weekly_planning_reminder,    *)
(* over a users table whose rows were last active around the 7-day limit.   *)
(* A sweep is suspended only at `await send_message`; handlers of other     *)
(* updates run then and touch the users table.  h holds the sweep in        *)
(* flight: its query result, its position in the loop, the chat ids it      *)
(* called send_message for, and the failures its except clause caught.      *)

NoSweep ==
    [cmd |-> "none", pc |-> "idle", active_users |-> <<>>, i |-> 0,
     sent |-> <<>>, failed |-> <<>>, users_at_query |-> <<>>, at |-> 0]

\* week_ago = datetime.utcnow() - timedelta(days=7)
week_ago(db) == db.now - ActiveDays * TicksPerDay

\* session.query(User).filter(User.last_active > week_ago).all()
active_users(db) == SelectSeq(db.users, LAMBDA u : u.last_active > week_ago(db))

\* A faulty variant: an error for one user ends the loop
caught_ends_loop(hh, user, what) ==
    [hh EXCEPT !.failed = Append(@, [chat_id |-> user.telegram_id, what |-> what]),
               !.i = Len(hh.active_users) + 1, !.pc = "next"]

\* `except Exception as e: print(...)` inside the loop: on to the next user
caught(hh, user, what) ==
    [hh EXCEPT !.failed = Append(@, [chat_id |-> user.telegram_id, what |-> what]),
               !.i = @ + 1, !.pc = "next"]

\* a sweep starts: the query for the active users
sweep_begins(cmd) ==
    /\ h.pc \in {"idle", "done"}
    /\ h' = [NoSweep EXCEPT !.cmd = cmd, !.pc = "next",
                            !.active_users = active_users(Store), !.i = 1,
                            !.users_at_query = users, !.at = now]
    /\ UNCHANGED <<users, goals, activities, conversations, now, tz, coach>>

daily_checkin_begins == sweep_begins("daily")

weekly_planning_reminder_begins == sweep_begins("weekly")

\* the loop up to its next await: the end of the sweep, or the next user.
\* daily_checkin aggregates the user's context first; a query of the
\* aggregation may raise, and the message reads keys that an empty dict
\* does not have.
sweep_next(aggregation_raises) ==
    /\ h.pc = "next"
    /\ IF h.i > Len(h.active_users)
       THEN h' = [h EXCEPT !.pc = "done"]
       ELSE LET user == h.active_users[h.i]
                got == get_user_data(Store, UserContext(user.telegram_id))
            IN  IF h.cmd = "daily" /\ (aggregation_raises \/ got.ret.empty)
                THEN h' = caught(h, user, "aggregation")
                ELSE h' = [h EXCEPT !.pc = "sending",
                                    !.sent = Append(@, user.telegram_id)]
    /\ UNCHANGED <<users, goals, activities, conversations, now, tz, coach>>

\* self.app.bot.send_message(...) returns or raises
send_message_returns(ok) ==
    /\ h.pc = "sending"
    /\ h' = IF ok THEN [h EXCEPT !.i = @ + 1, !.pc = "next"]
                  ELSE caught(h, h.active_users[h.i], "send")
    /\ UNCHANGED <<users, goals, activities, conversations, now, tz, coach>>

\* while the sweep waits, a handler's get_or_create_user for some identity
sweep_other_get_or_create_user(id) ==
    /\ h.pc \in {"idle", "sending", "done"}
    /\ Commit(get_or_create_user(Store, telegram_user(id)))
    /\ UNCHANGED <<coach, h>>

\* the tick of the sweeps, and the last_active values around week_ago
SweepTick == ActiveDays * TicksPerDay + 1
SweepLastActive == {SweepTick - ActiveDays * TicksPerDay,
                    SweepTick - ActiveDays * TicksPerDay + 1}

InitSweep ==
    /\ now = SweepTick
    /\ tz = 0
    /\ \E n \in 1..MaxSweepUsers :
          users \in [1..n -> {[User([now |-> 0], telegram_user(id)) EXCEPT
                                  !.last_active = t] :
                              id \in 1..MaxSweepUsers, t \in SweepLastActive}]
    /\ \A i \in 1..Len(users) : users[i].telegram_id = i
    /\ goals = <<>>
    /\ activities = <<>>
    /\ conversations = <<>>
    /\ coach = GeminiCoach(<<>>, FALSE)
    /\ h = NoSweep

NextSweep ==
    \/ daily_checkin_begins
    \/ weekly_planning_reminder_begins
    \/ \E aggregation_raises \in BOOLEAN : sweep_next(aggregation_raises)
    \/ \E ok \in BOOLEAN : send_message_returns(ok)
    \/ \E id \in 1..MaxSweepUsers : sweep_other_get_or_create_user(id)

SpecSweep == InitSweep /\ [][NextSweep]_vars

----------------------------------------------------------------------------
(* The streak over a history of activity: /progress on a store that holds   *)
(* one activity row for each tick of a set of past ticks.                   *)

RECURSIVE rows_at(_, _)
rows_at(ticks, user_id) ==
    IF ticks = {} THEN <<>>
    ELSE LET t == CHOOSE x \in ticks : \A y \in ticks : y <= x
         IN  Append(rows_at(ticks \ {t}, user_id),
                    [user_id |-> user_id, description |-> seed_description,
                     activity_type |-> "task_completed", timestamp |-> t,
                     mood_score |-> <<>>, context_tags |-> <<>>])

StreakTicks == 0..(TicksPerDay * (MaxStreakDay + 1) - 1)

InitStreak ==
    /\ now \in StreakTicks
    /\ tz \in TzOffsets
    /\ goals = <<>>
    /\ \E ticks \in SUBSET (0..now) :
          /\ activities = rows_at(ticks, 1)
          /\ users = <<[User([now |-> 0], telegram_user(1)) EXCEPT
                          !.last_active = now,
                          !.total_activities = Cardinality(ticks)]>>
    /\ conversations = <<>>
    /\ coach = GeminiCoach(<<>>, FALSE)
    /\ h = NoHandler

NextStreak ==
    \/ show_progress(1)
    \/ reply_sent

SpecStreak == InitStreak /\ [][NextStreak]_vars

----------------------------------------------------------------------------
(* The tenure of a user: contexts aggregated for a user created at any tick *)
(* up to now, or created by the very message that is being handled.         *)

InitTenure ==
    /\ now \in StreakTicks
    /\ tz \in TzOffsets
    /\ \E created \in 0..now :
          users \in {<<>>, <<User([now |-> created], telegram_user(1))>>}
    /\ goals = <<>>
    /\ activities = <<>>
    /\ conversations = <<>>
    /\ coach = GeminiCoach(<<>>, FALSE)
    /\ h = NoHandler

NextTenure ==
    \/ \E m \in Messages : handle_message(1, m)
    \/ show_progress(1)
    \/ reply_sent

SpecTenure == InitTenure /\ [][NextTenure]_vars

----------------------------------------------------------------------------
(* Updates handled concurrently: up to MaxInFlight invocations of           *)
(* start_command and handle_message, for two identities, each running       *)
(* without interruption between its awaits and interleaved with the others  *)
(* there.  h maps each slot to the invocation it holds.                     *)

SomeIds == {1, 2}

\* a generation call that fails and one that returns a text
SomeOutcomes ==
    { [kind |-> "raise", text |-> <<>>],
      [kind |-> "text", text |-> <<" ","O","K","\n">>] }

InitUsers ==
    /\ now = 0
    /\ tz = 0
    /\ users = <<>>
    /\ goals = <<>>
    /\ activities = <<>>
    /\ conversations = <<>>
    /\ coach \in {GeminiCoach(<<>>, FALSE), GeminiCoach(<<"key">>, TRUE)}
    /\ h = [slot \in 1..MaxInFlight |-> NoHandler]

\* an update is handed to the first slot that holds no running invocation
FreeSlot(slot) ==
    /\ h[slot].pc \in {"idle", "raised"}
    /\ \A other \in 1..(slot - 1) : h[other].pc \notin {"idle", "raised"}

\* start_command in a slot
concurrent_start_command(slot, id) ==
    /\ FreeSlot(slot)
    /\ LET db == get_or_create_user(Store, telegram_user(id))
           existed == users_by_telegram_id(Store, id) # <<>>
           hh == [NoHandler EXCEPT !.cmd = "start", !.user_id = id]
       IN  /\ Commit(db)
           /\ h' = [h EXCEPT ![slot] =
                      IF existed
                      THEN [NoHandler EXCEPT !.pc = "raised"]
                      ELSE replies(hh, reply_text("Welcome", <<>>))]
    /\ UNCHANGED coach

\* handle_message in a slot, up to its first await
concurrent_handle_message(slot, id, message_text) ==
    /\ FreeSlot(slot)
    /\ RoomForRow
    /\ LET db == get_or_create_user(Store, telegram_user(id))
           got == get_user_data(db, UserContext(id))
           hh == [NoHandler EXCEPT !.cmd = "message", !.user_id = id,
                                   !.text = message_text, !.message = message_text,
                                   !.user_context = got.self,
                                   !.context_data = <<got.ret>>]
           out == respond(db, hh)
       IN  Commit(out.db) /\ h' = [h EXCEPT ![slot] = out.h]
    /\ UNCHANGED coach

\* the generation call of a slot comes back
concurrent_generation_returns(slot, outcome) ==
    /\ h[slot].pc = "generating"
    /\ LET ret == generate_response_return(outcome, h[slot].message,
                                           h[slot].context_data[1])
           out == after_response(Store, [h[slot] EXCEPT !.response = ret.response])
       IN  Commit(out.db) /\ h' = [h EXCEPT ![slot] = out.h]
    /\ UNCHANGED coach

\* the reply of a slot has been sent
concurrent_reply_sent(slot) ==
    /\ h[slot].pc = "replying"
    /\ h' = [h EXCEPT ![slot] = NoHandler]
    /\ UNCHANGED <<users, goals, activities, conversations, now, tz, coach>>

NextUsers ==
    \/ \E slot \in 1..MaxInFlight, id \in SomeIds : concurrent_start_command(slot, id)
    \/ \E slot \in 1..MaxInFlight, id \in SomeIds :
           concurrent_handle_message(slot, id, Lit_hello)
    \/ \E slot \in 1..MaxInFlight, outcome \in SomeOutcomes :
           concurrent_generation_returns(slot, outcome)
    \/ \E slot \in 1..MaxInFlight : concurrent_reply_sent(slot)

SpecUsers == InitUsers /\ [][NextUsers]_vars

----------------------------------------------------------------------------
(* Updates and sweeps on one event loop.  The application is built without  *)
(* concurrent_updates, so an update is dispatched only when the handler of   *)
(* the update before it has returned; the scheduler runs the two sweeps as   *)
(* coroutines on the same loop, where they take their steps whenever the     *)
(* handler in flight is suspended.  h[0] holds the sweep in flight and       *)
(* h[1..MaxInFlight] the handler invocations.                                *)

\* A faulty variant: concurrent_updates is on, and an update is dispatched at once
NoneInFlight_concurrent_updates == TRUE

\* the update loop awaits the handler of one update before it takes the next
NoneInFlight == \A slot \in 1..MaxInFlight : h[slot].pc \in {"idle", "raised"}

InitLoop ==
    /\ now = 0
    /\ tz = 0
    /\ users \in {<<>>, <<User([now |-> 0], telegram_user(1))>>}
    /\ goals = <<>>
    /\ activities = <<>>
    /\ conversations = <<>>
    /\ coach \in {GeminiCoach(<<>>, FALSE), GeminiCoach(<<"key">>, TRUE)}
    /\ h = [slot \in 0..MaxInFlight |-> IF slot = 0 THEN NoSweep ELSE NoHandler]

\* a free-text message is dispatched
loop_handle_message(slot, id, message_text) ==
    /\ NoneInFlight
    /\ concurrent_handle_message(slot, id, message_text)

\* /win is dispatched
loop_log_win(slot, id, args) ==
    /\ NoneInFlight
    /\ FreeSlot(slot)
    /\ RoomForRow
    /\ LET description == win_description(args)
           logged == log_activity(Store, UserContext(id), description, "win",
                                  <<4>>, <<win_tags>>)
           got == get_user_data(logged.db, logged.self)
           hh == [NoHandler EXCEPT !.cmd = "win", !.user_id = id,
                                   !.text = description,
                                   !.message = celebration_message(description),
                                   !.user_context = got.self,
                                   !.context_data = <<got.ret>>]
           out == respond(logged.db, hh)
       IN  Commit(out.db) /\ h' = [h EXCEPT ![slot] = out.h]
    /\ UNCHANGED coach

\* /goal with a description is dispatched
loop_set_goal(slot, id, args) ==
    /\ NoneInFlight
    /\ FreeSlot(slot)
    /\ RoomForRow
    /\ args # <<>>
    /\ LET goal_text == join(<<" ">>, args)
           goal == Goal(Store, id, goal_text, "general")
           hh == [NoHandler EXCEPT !.cmd = "goal", !.user_id = id, !.args = args]
       IN  /\ Commit([Store EXCEPT !.goals = Append(@, goal)])
           /\ h' = [h EXCEPT ![slot] =
                      replies(hh, reply_text("Goal set: ", <<fixed_text(goal_text)>>))]
    /\ UNCHANGED coach

\* the scheduler starts a sweep: the query for the active users
loop_sweep_begins(cmd) ==
    /\ h[0].pc \in {"idle", "done"}
    /\ h' = [h EXCEPT ![0] =
               [NoSweep EXCEPT !.cmd = cmd, !.pc = "next",
                               !.active_users = active_users(Store), !.i = 1,
                               !.users_at_query = users, !.at = now]]
    /\ UNCHANGED <<users, goals, activities, conversations, now, tz, coach>>

\* the loop of the sweep up to its next await
loop_sweep_next(aggregation_raises) ==
    /\ h[0].pc = "next"
    /\ IF h[0].i > Len(h[0].active_users)
       THEN h' = [h EXCEPT ![0].pc = "done"]
       ELSE LET user == h[0].active_users[h[0].i]
                got == get_user_data(Store, UserContext(user.telegram_id))
            IN  IF h[0].cmd = "daily" /\ (aggregation_raises \/ got.ret.empty)
                THEN h' = [h EXCEPT ![0] = caught(h[0], user, "aggregation")]
                ELSE h' = [h EXCEPT ![0].pc = "sending",
                                    ![0].sent = Append(@, user.telegram_id)]
    /\ UNCHANGED <<users, goals, activities, conversations, now, tz, coach>>

\* send_message of the sweep returns or raises
loop_send_message_returns(ok) ==
    /\ h[0].pc = "sending"
    /\ h' = [h EXCEPT ![0] =
               IF ok THEN [h[0] EXCEPT !.i = @ + 1, !.pc = "next"]
                     ELSE caught(h[0], h[0].active_users[h[0].i], "send")]
    /\ UNCHANGED <<users, goals, activities, conversations, now, tz, coach>>

NextLoop ==
    \/ \E slot \in 1..MaxInFlight, id \in SomeIds : loop_handle_message(slot, id, Lit_hello)
    \/ \E slot \in 1..MaxInFlight, id \in SomeIds, args \in WinArgs :
           loop_log_win(slot, id, args)
    \/ \E slot \in 1..MaxInFlight, id \in SomeIds :
           loop_set_goal(slot, id, <<Lit_Launched, Lit_page>>)
    \/ \E slot \in 1..MaxInFlight, outcome \in SomeOutcomes :
           concurrent_generation_returns(slot, outcome)
    \/ \E slot \in 1..MaxInFlight : concurrent_reply_sent(slot)
    \/ \E cmd \in {"daily", "weekly"} : loop_sweep_begins(cmd)
    \/ \E aggregation_raises \in BOOLEAN : loop_sweep_next(aggregation_raises)
    \/ \E ok \in BOOLEAN : loop_send_message_returns(ok)

SpecLoop == InitLoop /\ [][NextLoop]_vars

----------------------------------------------------------------------------

(* One UserContext object called directly: get_user_data and log_activity   *)
(* in any order, on a store that may already hold the user and a history of *)
(* RecentActivitiesLimit activities, while other code writes to the store.  *)

seed_rows(n, user_id) ==
    [i \in 1..n |->
        [user_id |-> user_id, description |-> seed_description,
         activity_type |-> "task_completed", timestamp |-> 0,
         mood_score |-> <<>>, context_tags |-> <<>>]]

\* the arguments the handlers pass to log_activity
LogArguments ==
    { [description |-> stuck_description, activity_type |-> "blocker",
       mood_score |-> <<>>, context_tags |-> <<stuck_tags>>],
      [description |-> default_win_description, activity_type |-> "win",
       mood_score |-> <<4>>, context_tags |-> <<win_tags>>] }

NewActivities ==
    Cardinality({i \in 1..Len(activities) : activities[i].description # seed_description})

InitContext ==
    /\ now = 0
    /\ tz \in TzOffsets
    /\ goals = <<>>
    /\ conversations = <<>>
    /\ \E seeded \in BOOLEAN, exists \in BOOLEAN :
          /\ activities = seed_rows(IF seeded THEN RecentActivitiesLimit ELSE 0, 1)
          /\ users = IF exists
                     THEN <<[User([now |-> 0], telegram_user(1)) EXCEPT
                                !.total_activities = Len(activities)]>>
                     ELSE <<>>
    /\ coach = GeminiCoach(<<>>, FALSE)
    /\ h = [NoHandler EXCEPT !.cmd = "context", !.user_id = 1,
                             !.user_context = UserContext(1)]

\* user_context.get_user_data()
context_get_user_data ==
    /\ h.cmd = "context"
    /\ LET got == get_user_data(Store, h.user_context)
       IN  h' = [h EXCEPT !.user_context = got.self, !.context_data = <<got.ret>>,
                          !.prev_op = h.op, !.op = "get",
                          !.before = <<Tables(Store)>>,
                          !.not_found = @ \/ got.ret.empty]
    /\ UNCHANGED <<users, goals, activities, conversations, now, tz, coach>>

\* user_context.log_activity(...)
context_log_activity(a) ==
    /\ h.cmd = "context"
    /\ NewActivities < MaxNewActs
    /\ LET logged == log_activity(Store, h.user_context, a.description,
                                  a.activity_type, a.mood_score, a.context_tags)
           user == users_by_telegram_id(Store, h.user_id)
       IN  /\ Commit(logged.db)
           /\ h' = [h EXCEPT !.user_context = logged.self,
                             !.prev_op = h.op, !.op = "log", !.before = <<>>,
                             !.logged = <<logged.db.activities[Len(logged.db.activities)]>>,
                             !.total_before =
                                 IF user # <<>> THEN user[1].total_activities ELSE 0]
    /\ UNCHANGED coach

\* another handler's get_or_create_user for the same identity
context_other_get_or_create_user ==
    /\ h.cmd = "context"
    /\ Commit(get_or_create_user(Store, telegram_user(h.user_id)))
    /\ h' = [h EXCEPT !.prev_op = h.op, !.op = "other", !.before = <<>>]
    /\ UNCHANGED coach

\* another UserContext object of the same identity logs an activity
context_other_log_activity(a) ==
    /\ h.cmd = "context"
    /\ NewActivities < MaxNewActs
    /\ Commit(log_activity(Store, UserContext(h.user_id), a.description,
                           a.activity_type, a.mood_score, a.context_tags).db)
    /\ h' = [h EXCEPT !.prev_op = h.op, !.op = "other", !.before = <<>>]
    /\ UNCHANGED coach

NextContext ==
    \/ context_get_user_data
    \/ \E a \in LogArguments : context_log_activity(a)
    \/ context_other_get_or_create_user
    \/ \E a \in LogArguments : context_other_log_activity(a)
    \/ Advance

SpecContext == InitContext /\ [][NextContext]_vars

----------------------------------------------------------------------------
(* Start-up on a store that an earlier run left behind.  DatabaseManager's  *)
(* constructor runs migrate_schema and then create_all before any update is *)
(* handled.  What migrate_schema finds for the type of users.telegram_id    *)
(* depends on the schema the store was created with; its query may also     *)
(* raise (no information_schema, or a client that rejects a plain string).  *)

ColumnChecks == {"raises", "no row", "integer", "bigint"}

\* Base.metadata.drop_all(self.engine)
drop_all(db) ==
    [db EXCEPT !.users = <<>>, !.goals = <<>>, !.activities = <<>>,
               !.conversations = <<>>]

\* DatabaseManager.migrate_schema, then create_all, which adds the missing
\* tables and leaves the rows of the others alone
migrate_schema ==
    /\ h.cmd = "startup" /\ h.pc = "migrating"
    /\ Commit(IF h.telegram_id_type = "integer" THEN drop_all(Store) ELSE Store)
    /\ h' = NoHandler
    /\ UNCHANGED coach

seed_conversation ==
    Conversation([now |-> 0], 1, Lit_hello, generated_text(<<"O","K">>),
                 tag_general, "gemini")

InitStartup ==
    /\ now \in 0..MaxNow
    /\ tz = 0
    /\ goals = <<>>
    /\ coach \in Coaches
    /\ \E column_check \in ColumnChecks :
          /\ h = [cmd |-> "startup", pc |-> "migrating",
                  telegram_id_type |-> column_check]
          /\ users \in {<<>>, <<User([now |-> 0], telegram_user(1))>>}
          /\ activities \in {<<>>, seed_rows(1, 1)}
          /\ conversations \in {<<>>, <<seed_conversation>>}
          /\ column_check = "no row" =>
                users = <<>> /\ activities = <<>> /\ conversations = <<>>

NextStartup ==
    \/ migrate_schema
    \/ \E m \in Messages : handle_message(1, m)
    \/ \E args \in WinArgs : log_win(1, args)
    \/ \E outcome \in GenerationOutcomes : generation_returns(outcome)
    \/ reply_sent

SpecStartup == InitStartup /\ [][NextStartup]_vars

----------------------------------------------------------------------------
(* Free-text messages on a store that may reject a commit.  session.commit() *)
(* raises, the finally clause closes the session and the exception leaves    *)
(* the handler; the application logs it and goes on to the next update.      *)
(* The commands run next to the messages, on a store that accepts theirs.    *)

\* A faulty variant: the error of the commit is swallowed and the reply goes out
persist_failed_swallowed(hh) ==
    [hh EXCEPT !.store_fault = TRUE, !.pc = "replying",
               !.reply = <<reply_text("", hh.response)>>]

\* the commit of the conversation row raises: `finally: session.close()`
\* and the handler is left before its reply_text
persist_failed(hh) == [hh EXCEPT !.store_fault = TRUE, !.pc = "raised"]

\* handle_message from the return of generate_response on: the conversation
\* row is committed and the reply is awaited, or the commit raises
log_conversation(db, hh, commit_ok) ==
    IF commit_ok
    THEN after_response(db, hh)
    ELSE [db |-> db, h |-> persist_failed(hh)]

\* a free-text message; the commit of get_or_create_user may raise as well
handle_message_on_store(id, message_text, user_commit_ok, commit_ok) ==
    /\ Free
    /\ RoomForRow
    /\ IF ~user_commit_ok
       THEN /\ Commit(Store)
            /\ h' = [Invoked("message", id, <<>>) EXCEPT
                        !.text = message_text, !.message = message_text,
                        !.store_fault = TRUE, !.pc = "raised"]
       ELSE LET db == get_or_create_user(Store, telegram_user(id))
                got == get_user_data(db, UserContext(id))
                hh == [Invoked("message", id, <<>>) EXCEPT
                          !.text = message_text, !.message = message_text,
                          !.user_context = got.self,
                          !.context_data = <<got.ret>>]
                enter == generate_response_enter(coach, message_text, got.ret)
                out == IF enter.called
                       THEN [db |-> db,
                             h |-> [hh EXCEPT !.pc = "generating", !.gen_calls = @ + 1]]
                       ELSE log_conversation(db, [hh EXCEPT !.response = enter.response],
                                             commit_ok)
            IN  Commit(out.db) /\ h' = out.h
    /\ UNCHANGED coach

\* the generation call of a free-text message comes back
message_generation_returns(outcome, commit_ok) ==
    /\ h.pc = "generating" /\ h.cmd = "message"
    /\ LET ret == generate_response_return(outcome, h.message, h.context_data[1])
           out == log_conversation(Store, [h EXCEPT !.outcome = <<outcome>>,
                                                    !.response = ret.response],
                                   commit_ok)
       IN  Commit(out.db) /\ h' = out.h
    /\ UNCHANGED coach

\* the generation call of a command comes back
command_generation_returns(outcome) ==
    /\ h.cmd # "message"
    /\ generation_returns(outcome)

InitConversation ==
    /\ now \in 0..MaxNow
    /\ tz = 0
    /\ users \in {<<>>, <<User([now |-> 0], telegram_user(1))>>}
    /\ goals = <<>>
    /\ activities = <<>>
    /\ conversations = <<>>
    /\ coach \in {GeminiCoach(<<>>, FALSE), GeminiCoach(<<"key">>, TRUE)}
    /\ h = NoHandler

NextConversation ==
    \/ \E m \in Messages, user_commit_ok \in BOOLEAN, commit_ok \in BOOLEAN :
           handle_message_on_store(1, m, user_commit_ok, commit_ok)
    \/ \E outcome \in SomeOutcomes, commit_ok \in BOOLEAN :
           message_generation_returns(outcome, commit_ok)
    \/ start_command(1)
    \/ handle_stuck(1)
    \/ \E args \in WinArgs : log_win(1, args)
    \/ show_progress(1)
    \/ \E args \in TextArgs : set_business_idea(1, args)
    \/ \E args \in PhaseArgs : set_phase(1, args)
    \/ \E args \in TextArgs : set_goal(1, args)
    \/ \E args \in TextArgs : generate_business_ideas_command(1, args)
    \/ \E args \in TextArgs : market_research_command(1, args)
    \/ \E outcome \in SomeOutcomes : command_generation_returns(outcome)
    \/ reply_sent

SpecConversation == InitConversation /\ [][NextConversation]_vars

----------------------------------------------------------------------------

(* The commands of one user on a store that may hold the rows of another    *)
(* user, left by an earlier run: a users row before or after the user's     *)
(* own, a goal, an activity and a conversation.  The other user is the      *)
(* identity 2.                                                              *)

other_user ==
    [User([now |-> 0], telegram_user(2)) EXCEPT
        !.execution_phase = phase_traction, !.total_activities = 1]

other_goal == Goal([now |-> 0], 2, seed_description, "general")

other_conversation ==
    Conversation([now |-> 0], 2, seed_description,
                 generated_text(<<"O","K">>), tag_general, "gemini")

InitIsolation ==
    /\ now \in 0..MaxNow
    /\ tz = 0
    /\ coach \in {GeminiCoach(<<>>, FALSE), GeminiCoach(<<"key">>, TRUE)}
    /\ h = NoHandler
    /\ \E other \in BOOLEAN, exists \in BOOLEAN, other_first \in BOOLEAN :
          LET own == IF exists THEN <<User([now |-> 0], telegram_user(1))>> ELSE <<>>
              others == IF other THEN <<other_user>> ELSE <<>>
          IN  /\ users = IF other_first THEN others \o own ELSE own \o others
              /\ goals = IF other THEN <<other_goal>> ELSE <<>>
              /\ activities = IF other THEN seed_rows(1, 2) ELSE <<>>
              /\ conversations = IF other THEN <<other_conversation>> ELSE <<>>

SpecIsolation == InitIsolation /\ [][NextCommands]_vars

----------------------------------------------------------------------------

(* The two keyword classifiers over many messages: one free-text message of *)
(* an existing user is handled, for each message of up to MaxWords words of *)
(* a vocabulary that meets every keyword list.                              *)

ClassifyWords ==
    << <<"S","t","u","c","k">>,
       <<"s","l","o","w">>,
       <<"w","i","n">>,
       <<"c","u","s","t","o","m","e","r">>,
       <<"m","o","n","e","y">>,
       <<"h","e","l","l","o">>,
       <<"l","a","u","n","c","h","e","d">>,
       <<"i","m","p","a","t","i","e","n","t">>,
       <<"W","i","n","t","e","r">>,
       <<"g","i","v","i","n","g"," ","u","p">> >>

WordChoices ==
    UNION { {p \in [1..n -> 1..Len(ClassifyWords)] :
                \A i \in 1..n, j \in 1..n : i # j => p[i] # p[j]} : n \in 1..MaxWords }

ClassifyMessages ==
    {join(<<" ">>, [i \in 1..Len(p) |-> ClassifyWords[p[i]]]) : p \in WordChoices}

InitClassify ==
    /\ now = 0
    /\ tz \in TzOffsets
    /\ users = <<User([now |-> 0], telegram_user(1))>>
    /\ goals = <<>>
    /\ activities = <<>>
    /\ conversations = <<>>
    /\ coach \in Coaches
    /\ h = NoHandler

NextClassify ==
    \/ \E m \in ClassifyMessages : conversations = <<>> /\ handle_message(1, m)
    \/ \E outcome \in GenerationOutcomes : generation_returns(outcome)
    \/ reply_sent

SpecClassify == InitClassify /\ [][NextClassify]_vars

----------------------------------------------------------------------------
(* Properties *)

\* the calendar dates on which the store holds an activity of the identity
ActivityDates(id) ==
    {Date(activities[i].timestamp) :
        i \in {j \in 1..Len(activities) : activities[j].user_id = id}}

\* today, on the server's local calendar
Today == Date(now + tz)

\* the length of the longest run of consecutive days ending on `day`, all in `dates`
MaximalRun(dates, day) ==
    CHOOSE k \in 0..Cardinality(dates) :
        /\ \A i \in 0..(k - 1) : day - i \in dates
        /\ day - k \notin dates

ProgressShown == h.cmd = "progress" /\ h.pc = "replying" /\ ~h.context_data[1].empty

\* C1: the streak that calculate_streak returns is the length of the maximal
\* run of consecutive calendar days that ends today and lies in the set of
\* the user's activity dates: 0 when today is not in the set, at least 1
\* when it is, and the count stops at the first missing day.
C1_StreakIsMaximalRunEndingToday ==
    ProgressShown =>
        LET dates == ActivityDates(h.user_id)
            streak == h.context_data[1].current_streak
        IN  /\ streak = MaximalRun(dates, Today)
            /\ Today \notin dates => streak = 0
            /\ Today \in dates => streak >= 1

\* C1 witness: the dates {today, today-1, today-2, today-4} give 3, and a run
\* that ends yesterday gives 0.
C1_Witness ==
    /\ ProgressShown
    /\ LET dates == ActivityDates(h.user_id)
       IN  /\ dates \cap ((Today - 4)..Today) = {Today, Today - 1, Today - 2, Today - 4}
           /\ h.context_data[1].current_streak = 3


\* get_user_data has just been called, right after log_activity on the same
\* object, for an identity that has a users row
LoggedThenAggregated ==
    /\ h.cmd = "context" /\ h.op = "get" /\ h.prev_op = "log"
    /\ users_by_telegram_id(Store, h.user_id) # <<>>

MatchesFallback(words, message) == \E w \in words : Contains(lower(message), w)

TagChecks ==
    { [tag |-> tag_procrastination, words |-> analyze_procrastination_words],
      [tag |-> tag_impatience, words |-> analyze_impatience_words],
      [tag |-> tag_win, words |-> analyze_win_words],
      [tag |-> tag_customer_related, words |-> analyze_customer_words],
      [tag |-> tag_financial, words |-> analyze_financial_words] }

MatchingTags(message) ==
    {c.tag : c \in {d \in TagChecks : MatchesFallback(d.words, message)}}

Rows(table) == {table[i] : i \in 1..Len(table)}

FallbackRows == {c \in Rows(conversations) : c.bot_response.kind = "template"}

\* C7: fallback_response picks exactly one of four buckets in the order
\* procrastination, impatience, celebration, general: the first bucket whose
\* keywords occur in the lower-cased message wins, and general is returned
\* only when no bucket matches.
C7_FallbackBucketByPriority ==
    \A c \in FallbackRows :
        LET p == MatchesFallback(fallback_procrastination_words, c.message_text)
            i == MatchesFallback(fallback_impatience_words, c.message_text)
            w == MatchesFallback(fallback_celebration_words, c.message_text)
            bucket == c.bot_response.bucket
        IN  /\ bucket \in {"procrastination", "impatience", "celebration", "general"}
            /\ bucket = "procrastination" <=> p
            /\ bucket = "impatience" <=> (~p /\ i)
            /\ bucket = "celebration" <=> (~p /\ ~i /\ w)
            /\ bucket = "general" <=> (~p /\ ~i /\ ~w)

\* C7 witness: a message with a procrastination and an impatience keyword
\* ("Stuck" and "slow") was answered with the procrastination template.
C7_Witness ==
    \E c \in FallbackRows :
        /\ MatchesFallback({<<"s","t","u","c","k">>}, c.message_text)
        /\ MatchesFallback({<<"s","l","o","w">>}, c.message_text)
        /\ c.bot_response.bucket = "procrastination"

\* C8: analyze_message_context evaluates its five keyword checks
\* independently and returns the union of the matching tags, whatever the
\* order of the checks; a message with a procrastination and a win keyword
\* gets both tags.
C8_TagsAreUnionOfChecks ==
    \A c \in Rows(conversations) :
        Fields(c.context_tags) \ {tag_general} = MatchingTags(c.message_text)

\* C8 witness: a logged message with "stuck" and "win" carries exactly the
\* tags procrastination and win.
C8_Witness ==
    \E c \in Rows(conversations) :
        /\ MatchesFallback({<<"s","t","u","c","k">>}, c.message_text)
        /\ MatchesFallback({<<"w","i","n">>}, c.message_text)
        /\ Fields(c.context_tags) = {tag_procrastination, tag_win}

\* C9: analyze_message_context never returns an empty result: it returns
\* the single tag general exactly when none of the five checks matches, and
\* general never stands next to another tag.
C9_GeneralIsSentinel ==
    \A c \in Rows(conversations) :
        /\ c.context_tags # <<>>
        /\ <<>> \notin Fields(c.context_tags)
        /\ c.context_tags = tag_general <=> MatchingTags(c.message_text) = {}
        /\ tag_general \in Fields(c.context_tags) => c.context_tags = tag_general

\* C9 witness: a message that meets no keyword list was logged with the
\* tag general, although the fallback classifier put it in a bucket of its own.
C9_Witness ==
    \E c \in Rows(conversations) :
        /\ c.context_tags = tag_general
        /\ MatchingTags(c.message_text) = {}
        /\ c.bot_response.kind = "template"
        /\ c.bot_response.bucket = "celebration"


Responding == h.cmd \in {"message", "stuck", "win"}

\* C3 (as claimed): the dict a handler hands to generate_response is never
\* one aggregated before a write to activities or users that the same
\* invocation made earlier: it equals the dict aggregated after that write.
C3_ContextReflectsEarlierWrite ==
    (Responding /\ h.wrote /\ h.context_data # <<>>) => h.context_data = h.fresh

\* the generation call failed: it raised, or returned no response or an empty text
FailedGeneration ==
    /\ h.outcome # <<>>
    /\ \/ h.outcome[1].kind \in {"raise", "none"}
       \/ h.outcome[1].kind = "text" /\ h.outcome[1].text = <<>>

\* C4: with the coach enabled, when the generation call raises or returns an
\* empty or missing text, generate_response has made exactly one generation
\* attempt, raises nothing to its caller and returns the fallback template.
C4_FailedGenerationFallsBackOnce ==
    /\ Responding => h.pc # "raised"
    /\ h.gen_calls <= 1
    /\ FailedGeneration =>
          /\ coach.enabled
          /\ h.gen_calls = 1
          /\ h.pc = "replying"
          /\ h.response # <<>>
          /\ h.response[1].kind = "template"
          /\ h.response[1].bucket \in {"procrastination", "impatience", "celebration", "general"}

\* C4 witness: the generation call raised while a free-text message was handled.
C4_Witness ==
    /\ h.cmd = "message" /\ h.pc = "replying"
    /\ h.outcome = <<[kind |-> "raise", text |-> <<>>]>>
    /\ h.response[1].kind = "template"

\* C5 (as claimed): the response_type stored with a conversation is fallback
\* whenever the reply text came from the fallback path, and gemini only when
\* the text came from a successful generation call.
C5_StoredOriginIsPathTaken ==
    \A c \in Rows(conversations) :
        /\ c.bot_response.kind = "template" => c.response_type = "fallback"
        /\ c.response_type = "gemini" => c.bot_response.kind = "generated"

\* C6: when the coach is not enabled (no key, or the client failed to
\* configure) generate_response returns the fallback response and never
\* issues a generation call.
C6_DisabledCoachNeverCalls ==
    ~coach.enabled =>
        /\ h.gen_calls = 0
        /\ h.pc # "generating"
        /\ (Responding /\ h.pc = "replying") =>
              h.response # <<>> /\ h.response[1].kind = "template"

\* C6 witness: a key was given, the client failed to configure, and a
\* message was answered.
C6_Witness ==
    /\ coach.api_key # <<>> /\ ~coach.enabled
    /\ h.cmd = "message" /\ h.pc = "replying"
    /\ h.response[1].kind = "template"

\* C10 (as claimed): when an identity without any row sends /win with a
\* description, an activities row of type win, mood 4 and a tag win exists,
\* and the reply confirms the win and shows a streak of at least 1.
C10_FirstWinShowsStreak ==
    (h.cmd = "win" /\ h.no_prior_rows /\ h.text # default_win_description
        /\ h.pc = "replying") =>
        /\ \E a \in Rows(activities) :
              /\ a.user_id = h.user_id
              /\ a.activity_type = "win"
              /\ a.mood_score = <<4>>
              /\ a.context_tags # <<>> /\ tag_win \in Fields(a.context_tags[1])
        /\ h.reply[1].head = "Win Logged!"
        /\ h.reply[1].body[1].kind = "template" => h.reply[1].body[1].days >= 1


\* a value that is none of the four phases, in whatever case it is written
InvalidPhaseValue(v) ==
    lower(v) \notin {phase_planning, phase_validation, phase_mvp, phase_traction}

InvalidPhaseAnswered ==
    /\ h.cmd = "phase" /\ h.pc = "replying"
    /\ h.args # <<>> /\ InvalidPhaseValue(h.args[1])

\* C11: when /phase is invoked with a value that is not one of planning,
\* validation, mvp, traction, the four tables are as the invocation found
\* them (the user's stored phase with them) and the reply lists the four
\* valid phase values.
C11_InvalidPhaseChangesNothing ==
    InvalidPhaseAnswered =>
        /\ Tables(Store) = h.before[1]
        /\ h.reply[1].head = "Valid phases: "
        /\ \A p \in {phase_planning, phase_validation, phase_mvp, phase_traction} :
               Contains(h.reply[1].body[1].text, p)

\* C11 witness: /phase somethingwrong of a user whose stored phase had been
\* set to mvp; the row still says mvp.
C11_Witness ==
    /\ InvalidPhaseAnswered
    /\ h.args = <<Lit_somethingwrong>>
    /\ users # <<>> /\ users[1].execution_phase = phase_mvp


\* the number of send attempts of the sweep in flight to a chat id
SendAttempts(id) == Cardinality({k \in 1..Len(h.sent) : h.sent[k] = id})

\* the user was active within the 7 days before the sweep's query
ActiveAtQuery(u) == h.at - u.last_active < ActiveDays * TicksPerDay

AggregationFailed(id) ==
    \E k \in 1..Len(h.failed) : h.failed[k] = [chat_id |-> id, what |-> "aggregation"]

SendFailed(id) ==
    \E k \in 1..Len(h.failed) : h.failed[k] = [chat_id |-> id, what |-> "send"]

\* C12 (as claimed): in a finished sweep every user who was active within
\* the last 7 days got exactly one send attempt, whichever sends or
\* aggregations failed, and every other user got none.
C12_EveryActiveUserGetsOneAttempt ==
    h.pc = "done" =>
        \A k \in 1..Len(h.users_at_query) :
            LET u == h.users_at_query[k]
            IN  SendAttempts(u.telegram_id) = IF ActiveAtQuery(u) THEN 1 ELSE 0

\* C12 (amended): a failure caught for one user leaves the attempts of the
\* other users as they are: no user ever gets more than one send attempt in
\* a sweep, and in a finished sweep a user who was not active within the
\* last 7 days got none, and a user who was got exactly one unless the
\* aggregation of that same user failed, in which case the send to that
\* user was never attempted.
C12_OneAttemptUnlessOwnAggregationFailed ==
    /\ \A k \in 1..Len(h.users_at_query) :
           SendAttempts(h.users_at_query[k].telegram_id) <= 1
    /\ h.pc = "done" =>
           \A k \in 1..Len(h.users_at_query) :
               LET u == h.users_at_query[k]
                   id == u.telegram_id
               IN  /\ ~ActiveAtQuery(u) => SendAttempts(id) = 0 /\ ~AggregationFailed(id)
                   /\ ActiveAtQuery(u) =>
                          SendAttempts(id) = IF AggregationFailed(id) THEN 0 ELSE 1

\* C12 witness: a finished daily sweep over three users: the send to the
\* first failed, the second was not active within 7 days and got nothing,
\* the third got its attempt.
C12_Witness ==
    /\ h.cmd = "daily" /\ h.pc = "done"
    /\ Len(h.users_at_query) = 3
    /\ SendFailed(1)
    /\ ~ActiveAtQuery(h.users_at_query[2]) /\ SendAttempts(2) = 0
    /\ ActiveAtQuery(h.users_at_query[3]) /\ SendAttempts(3) = 1


\* the handler in flight has aggregated a context of a user who has a row
Aggregated ==
    /\ h.cmd \in {"message", "progress"}
    /\ h.context_data # <<>> /\ ~h.context_data[1].empty

\* C13: the tenure (days_since_start) in every aggregated context is
\* non-negative and is the number of whole days elapsed between the user's
\* creation time and the time of the aggregation; a context aggregated at
\* the creation time has tenure 0.
C13_TenureIsWholeElapsedDays ==
    Aggregated =>
        LET d == h.context_data[1].days_since_start
            elapsed == h.at - users[1].created_at
        IN  /\ d >= 0
            /\ d * TicksPerDay <= elapsed
            /\ elapsed < (d + 1) * TicksPerDay
            /\ elapsed = 0 => d = 0

\* C13 witness: a context aggregated two and a half days after the creation
\* shows a tenure of 2.
C13_Witness ==
    /\ Aggregated
    /\ 2 * (h.at - users[1].created_at) = 5 * TicksPerDay
    /\ h.context_data[1].days_since_start = 2


\* C14: whatever handler invocations ran and however they interleaved, the
\* users table holds at most one row for each external identity.
C14_AtMostOneRowPerIdentity ==
    \A id \in SomeIds : Len(users_by_telegram_id(Store, id)) <= 1

\* C14 witness: two messages of one new identity are in flight at once, both
\* waiting for their generation call, and the identity has its one row.
C14_Witness ==
    /\ h[1].cmd = "message" /\ h[1].pc = "generating" /\ h[1].user_id = 1
    /\ h[2].cmd = "message" /\ h[2].pc = "generating" /\ h[2].user_id = 1
    /\ Len(users_by_telegram_id(Store, 1)) = 1


\* C15 (as claimed): in every reachable state each goals, activities and
\* conversations row carries a user identity that has a users row.
C15_RowsReferenceExistingUser ==
    \A r \in Rows(goals) \cup Rows(activities) \cup Rows(conversations) :
        users_by_telegram_id(Store, r.user_id) # <<>>

\* a table keeps the rows it has, in place and unchanged
Kept(table, table_after) ==
    /\ Len(table_after) >= Len(table)
    /\ SubSeq(table_after, 1, Len(table)) = table

\* C16 (as claimed): no step of the program, start-up and migration
\* included, modifies or removes an activities or conversations row, and no
\* step removes a row of users or goals.
C16_RowsAreNeverRemoved ==
    [][/\ Kept(activities, activities')
       /\ Kept(conversations, conversations')
       /\ Len(users') >= Len(users)
       /\ Len(goals') >= Len(goals)]_vars


\* get_user_data has just been called on the UserContext
JustAggregated == h.cmd = "context" /\ h.op = "get"

\* C17: get_user_data for an identity with no users row returns the empty
\* dict and not a populated one, leaves the four tables as they were, and
\* does not keep that result: the dict returned is empty exactly when the
\* identity has no row at the time of the call, also on an object that
\* returned the empty dict before.
C17_NotFoundIsEmptyAndNotCached ==
    JustAggregated =>
        /\ h.context_data[1].empty <=> users_by_telegram_id(Store, h.user_id) = <<>>
        /\ h.context_data[1].empty => h.user_context.user_data = <<>>
        /\ Tables(Store) = h.before[1]

\* C17 witness: the object returned the empty dict, the user was created,
\* and the same object now returns the populated context.
C17_Witness ==
    /\ JustAggregated
    /\ h.not_found
    /\ ~h.context_data[1].empty
    /\ h.context_data[1].user = <<users[1]>>


\* the identity of the invocation in flight had a users row when it began
UserExisted ==
    /\ h.before # <<>>
    /\ \E k \in 1..Len(h.before[1].users) : h.before[1].users[k].telegram_id = h.user_id

\* one of the seven commands has run to its reply, with the arguments it
\* needs to get as far as the user's rows
CommandOnUser ==
    /\ h.pc = "replying"
    /\ \/ h.cmd \in {"win", "stuck", "ideas"}
       \/ h.cmd \in {"idea", "goal", "research"} /\ h.args # <<>>
       \/ h.cmd = "phase" /\ h.args # <<>> /\ ~InvalidPhaseValue(h.args[1])

\* C18 (as claimed): each of /idea, /phase, /goal, /win, /stuck, /ideas and
\* /research, sent by an identity that has no users row, replies with the
\* prompt to use /start first and writes no row.
C18_UnknownUserIsPromptedAndNothingWritten ==
    (CommandOnUser /\ ~UserExisted) =>
        /\ h.reply[1] = start_first_text
        /\ Tables(Store) = h.before[1]

\* one of the two specialised operations has returned its text
SpecialisedAnswered ==
    h.cmd \in {"ideas", "research"} /\ h.pc = "replying" /\ h.response # <<>>

\* C19: the business-ideas and market-research operations never answer with
\* a template of the keyword fallback and never raise: with the coach not
\* enabled they return their fixed not-available text and issue no
\* generation call; when the one generation call raises or returns an
\* empty or missing text they return their fixed unable text.
C19_SpecialisedNeverFallBack ==
    h.cmd \in {"ideas", "research"} =>
        /\ h.pc # "raised"
        /\ h.gen_calls <= 1
        /\ ~coach.enabled => h.gen_calls = 0 /\ h.pc # "generating"
        /\ SpecialisedAnswered =>
              LET response == h.response[1]
                  ideas == h.cmd = "ideas"
              IN  /\ response.kind # "template"
                  /\ ~coach.enabled =>
                         response = fixed_text(IF ideas THEN ideas_not_available
                                               ELSE research_not_available)
                  /\ FailedGeneration =>
                         /\ response.kind = "fixed"
                         /\ response.text \in
                                (IF ideas THEN {ideas_unable, ideas_unable_later}
                                 ELSE {research_unable, research_unable_later})

\* C19 witness: the generation call of /ideas raised and the reply carries
\* the fixed text that asks to try again later.
C19_Witness ==
    /\ SpecialisedAnswered /\ h.cmd = "ideas"
    /\ h.outcome = <<[kind |-> "raise", text |-> <<>>]>>
    /\ h.response = <<fixed_text(ideas_unable_later)>>
    /\ h.gen_calls = 1

\* C20 (as claimed): when a command or a free-text message of a user who
\* has a users row has been handled, the row's last_active is not older
\* than the time the update arrived.
C20_EveryInteractionUpdatesLastActive ==
    (h.cmd # "none" /\ h.pc \in {"replying", "raised"} /\ UserExisted) =>
        \A k \in 1..Len(users) :
            users[k].telegram_id = h.user_id => users[k].last_active >= h.at


\* C21: in every reachable state the execution phase of every users row is
\* one of planning, validation, mvp, traction: a row is created with
\* planning, and /phase stores the lower-cased value only when it is one of
\* the four.
C21_PhaseIsOneOfFour ==
    \A k \in 1..Len(users) :
        users[k].execution_phase \in
            {phase_planning, phase_validation, phase_mvp, phase_traction}

\* C21 witness: /phase MVP of a user created with planning has stored mvp.
C21_Witness ==
    /\ h.cmd = "phase" /\ h.pc = "replying" /\ h.args = <<Lit_MVP>>
    /\ UserExisted
    /\ h.before[1].users[1].execution_phase = phase_planning
    /\ users[1].execution_phase = phase_mvp
    /\ h.reply[1].body = <<fixed_text(Lit_MVP)>>


\* a free-text message has been handled up to the send of its reply
MessageAnswered == h.cmd = "message" /\ h.pc = "replying"

\* C22: a free-text message that is handled to completion adds exactly one
\* conversations row, of the sending user, holding the inbound text and the
\* reply text, and the row is committed when the reply is about to be sent;
\* before that the message has added none; when a commit of the handler
\* raises, the handler is left without a reply and without a row; and no
\* command handler adds a conversations row.
C22_OneConversationPerMessage ==
    /\ MessageAnswered =>
          /\ Len(conversations) = Len(h.before[1].conversations) + 1
          /\ Kept(h.before[1].conversations, conversations)
          /\ LET c == conversations[Len(conversations)]
             IN  /\ c.user_id = h.user_id
                 /\ c.message_text = h.text
                 /\ h.reply[1].body = <<c.bot_response>>
    /\ (h.cmd = "message" /\ h.pc # "replying") =>
          conversations = h.before[1].conversations
    /\ h.store_fault =>
          /\ h.pc = "raised"
          /\ h.reply = <<>>
          /\ conversations = h.before[1].conversations
    /\ (h.cmd \notin {"message", "none"} /\ h.before # <<>>) =>
          conversations = h.before[1].conversations

\* C22 witness: the generation call of a message returned a text, and the
\* one new row holds the message and the stripped text the reply carries.
C22_Witness ==
    /\ MessageAnswered
    /\ h.outcome # <<>>
    /\ conversations = <<Conversation([now |-> h.at], 1, Lit_hello,
                                      generated_text(<<"O","K">>), tag_general, "gemini")>>
    /\ h.reply[1].body = <<generated_text(<<"O","K">>)>>


\* one of the four commands that need an argument was invoked without one
NoArgument ==
    h.cmd \in {"idea", "phase", "goal", "research"} /\ h.args = <<>>

\* the usage hint of each of the four commands
UsageHint(cmd) ==
    CASE cmd = "idea" -> "Usage: /idea Your business idea description"
      [] cmd = "phase" -> "Usage: /phase [planning|validation|mvp|traction]"
      [] cmd = "goal" -> "Usage: /goal Your goal description"
      [] cmd = "research" -> "Usage: /research [topic]"

\* C23: /idea, /phase, /goal and /research invoked with no arguments reply
\* with their usage hint and nothing else, leave the four tables as the
\* invocation found them, and issue no generation call.
C23_NoArgumentGivesUsageHintOnly ==
    NoArgument =>
        /\ h.pc = "replying"
        /\ h.reply = <<reply_text(UsageHint(h.cmd), <<>>)>>
        /\ Tables(Store) = h.before[1]
        /\ h.gen_calls = 0
        /\ h.response = <<>>

\* C23 witness: /research with no topic of a user who has a row, with the
\* coach enabled: the hint, and no generation call.
C23_Witness ==
    /\ NoArgument /\ h.cmd = "research"
    /\ coach.enabled
    /\ UserExisted
    /\ h.reply[1].head = "Usage: /research [topic]"
    /\ h.gen_calls = 0


\* the rows of an identity in each of four tables
RowsOfUser(us, gs, as, cs, id) ==
    [users |-> SelectSeq(us, LAMBDA r : r.telegram_id = id),
     goals |-> SelectSeq(gs, LAMBDA r : r.user_id = id),
     activities |-> SelectSeq(as, LAMBDA r : r.user_id = id),
     conversations |-> SelectSeq(cs, LAMBDA r : r.user_id = id)]

\* the invocation of this slot is a message suspended in the generation call
SuspendedMessage(slot) == h[slot].cmd = "message" /\ h[slot].pc = "generating"

\* C24: while a message of a user is suspended in the generation call, no
\* step of another handler or of a sweep changes a row of that user; the
\* step that ends the suspension adds the conversation row with the reply
\* and nothing else, and the users row of the context the reply was made
\* from is the users row the store holds when the reply is logged.
C24_SuspendedMessageSeesNoWrite ==
    [][\A slot \in 1..MaxInFlight :
          SuspendedMessage(slot) =>
              LET id == h[slot].user_id
                  rows == RowsOfUser(users, goals, activities, conversations, id)
                  rows_after == RowsOfUser(users', goals', activities', conversations', id)
              IN  /\ h'[slot] = h[slot] => rows_after = rows
                  /\ h'[slot] # h[slot] =>
                        /\ h'[slot].pc = "replying"
                        /\ rows_after =
                              [rows EXCEPT !.conversations =
                                  Append(@, Conversation(Store, id, h[slot].text,
                                                         h'[slot].response[1],
                                                         analyze_message_context(h[slot].text),
                                                         "gemini"))]
                        /\ rows_after.users = h[slot].context_data[1].user]_vars

\* C24 witness: a message of user 1 is suspended in the generation call
\* while a daily sweep is sending to that same user.
C24_Witness ==
    /\ SuspendedMessage(1) /\ h[1].user_id = 1
    /\ h[0].cmd = "daily" /\ h[0].pc = "sending"
    /\ h[0].active_users[h[0].i].telegram_id = 1
    /\ RowsOfUser(users, goals, activities, conversations, 1).users =
          h[1].context_data[1].user


\* C25 (as claimed): in every reachable state the total_activities counter
\* of each users row equals the number of activities rows stored for that
\* user.
C25_CounterEqualsActivityRows ==
    \A k \in 1..Len(users) :
        users[k].total_activities =
            Len(activities_by_user(Store, users[k].telegram_id))


\* a store with the rows of one identity and no others
OnlyRowsOf(db, id) ==
    [db EXCEPT !.users = SelectSeq(db.users, LAMBDA r : r.telegram_id = id),
               !.goals = SelectSeq(db.goals, LAMBDA r : r.user_id = id),
               !.activities = SelectSeq(db.activities, LAMBDA r : r.user_id = id),
               !.conversations = SelectSeq(db.conversations, LAMBDA r : r.user_id = id)]

\* the handler in flight holds a context aggregated on the store as it is now
AggregatedOnThisStore ==
    /\ h.context_data # <<>>
    /\ \/ h.cmd = "progress" /\ h.pc = "replying"
       \/ h.cmd = "message" /\ h.pc = "generating"

\* C26: the context aggregated for a user is the context aggregated on the
\* store that holds that user's rows and no others, so two stores that
\* agree on the user's rows give the same context; and while a command or
\* message of a user is handled, the rows of every other user are as the
\* invocation found them.
C26_ContextAndWritesArePerUser ==
    /\ \A id \in SomeIds :
          get_user_data(Store, UserContext(id)).ret =
              get_user_data(OnlyRowsOf(Store, id), UserContext(id)).ret
    /\ AggregatedOnThisStore =>
          h.context_data[1] =
              get_user_data(OnlyRowsOf(Store, h.user_id), UserContext(h.user_id)).ret
    /\ (h.cmd # "none" /\ h.before # <<>>) =>
          \A other \in SomeIds \ {h.user_id} :
              RowsOfUser(users, goals, activities, conversations, other) =
                  RowsOfUser(h.before[1].users, h.before[1].goals,
                             h.before[1].activities, h.before[1].conversations, other)

\* C26 witness: /progress of a user who has logged one activity, on a store
\* that also holds the rows of the other user: the context shows the user's
\* own activity and none of the other's rows.
C26_Witness ==
    /\ h.cmd = "progress" /\ h.pc = "replying" /\ h.user_id = 1
    /\ Len(activities) = 2 /\ Len(users) = 2
    /\ goals = <<other_goal>> /\ conversations = <<other_conversation>>
    /\ Len(h.context_data[1].recent_activities) = 1
    /\ h.context_data[1].recent_activities[1].user_id = 1
    /\ h.context_data[1].active_goals = <<>>
    /\ h.context_data[1].recent_conversations = <<>>
    /\ h.context_data[1].total_activities = 1

====
